---- MODULE Spec2Model ----
(***************************************************************************)
(* Model of the WarcraftLogs-to-YouTube timestamp converter                *)
(* (src/src/components/WarcraftLogsToYoutubeConverter.tsx).                *)
(*                                                                         *)
(* JavaScript strings are modelled as sequences of one-character strings,  *)
(* so that formatting, padding, splitting and the regular expressions of   *)
(* the parser are computed character by character.  JavaScript numbers are *)
(* integers plus the distinguished value NaN.  A Date is the number of     *)
(* seconds since local midnight of day 0, or InvalidDate; the local zone   *)
(* is taken to have a fixed UTC offset (no daylight-saving change falls    *)
(* between the instants compared).                                         *)
(***************************************************************************)
EXTENDS Integers, Sequences, FiniteSets, TLC

VARIABLES
    videoStartTime,    \* useState("")            line 25
    entries,           \* useState<TimestampEntry[]>([])  line 26
    infoDialogOpen,    \* useState(false)         line 27
    pastedLogs,        \* useState("")            line 28
    youtubeFormatted,  \* useState("")            line 29
    logsUrl,           \* useState("")            line 30
    isLoading,         \* useState(false)         line 31
    logStartDate,      \* useState<Date|null>(null) line 32
    toast,             \* the last notice raised through toast()
    now,               \* the reading of Date.now()
    lastAction,        \* the handler that ran last
    call,              \* argument of the function under direct call
    ret,               \* its return value
    request,           \* the fetch() calls that fetchLogsFromUrl awaits, oldest first
    clipboard          \* the text last handed to navigator.clipboard.writeText

appState == <<videoStartTime, entries, infoDialogOpen, pastedLogs,
              youtubeFormatted, logsUrl, isLoading, logStartDate>>
vars == <<videoStartTime, entries, infoDialogOpen, pastedLogs, youtubeFormatted,
          logsUrl, isLoading, logStartDate, toast, now, lastAction, call, ret, request,
          clipboard>>

----------------------------------------------------------------------------
(* JavaScript values *)

NaN == -999999999
InvalidDate == -999999998
null == -1
undefined == "undefined"
NoToast == [title |-> "", description |-> "", variant |-> "none"]
EmptyString == << >>
NoReturn == [done |-> FALSE, value |-> << >>]
\* no fetch() is awaited
NoRequest == << >>
Return(v) == [done |-> TRUE, value |-> v]

Digits == <<"0", "1", "2", "3", "4", "5", "6", "7", "8", "9">>
IsDigit(c) == c \in {"0", "1", "2", "3", "4", "5", "6", "7", "8", "9"}
DigitVal(c) == CHOOSE d \in 0..9 : Digits[d + 1] = c
\* \s of a JavaScript regular expression and of String.prototype.trim
IsSpace(c) == c \in {" ", "\t", "\r", "\n"}

RECURSIVE NatToString(_)
NatToString(n) ==
    IF n < 10 THEN <<Digits[n + 1]>>
    ELSE NatToString(n \div 10) \o <<Digits[(n % 10) + 1]>>

\* Number.prototype.toString for the integers and NaN
toString(n) ==
    IF n = NaN THEN <<"N", "a", "N">>
    ELSE IF n < 0 THEN <<"-">> \o NatToString(0 - n)
    ELSE NatToString(n)

\* String.prototype.padStart(targetLength, padString) with a one-character pad
RECURSIVE padStart(_, _, _)
padStart(s, n, c) == IF Len(s) >= n THEN s ELSE padStart(<<c>> \o s, n, c)

RECURSIVE DigitsValue(_)
DigitsValue(s) ==
    IF s = << >> THEN 0
    ELSE 10 * DigitsValue(SubSeq(s, 1, Len(s) - 1)) + DigitVal(s[Len(s)])

AllDigits(s) == \A k \in 1..Len(s) : IsDigit(s[k])

\* String.prototype.trim
RECURSIVE trimStart(_)
trimStart(s) == IF s # << >> /\ IsSpace(s[1]) THEN trimStart(Tail(s)) ELSE s
RECURSIVE trimEnd(_)
trimEnd(s) ==
    IF s # << >> /\ IsSpace(s[Len(s)]) THEN trimEnd(SubSeq(s, 1, Len(s) - 1)) ELSE s
trim(s) == trimEnd(trimStart(s))

\* String.prototype.split(sep) with a one-character separator
RECURSIVE split(_, _)
split(s, sep) ==
    IF \E k \in 1..Len(s) : s[k] = sep
    THEN LET k == CHOOSE k \in 1..Len(s) : s[k] = sep /\ \A j \in 1..(k - 1) : s[j] # sep
         IN  <<SubSeq(s, 1, k - 1)>> \o split(SubSeq(s, k + 1, Len(s)), sep)
    ELSE <<s>>

\* Array.prototype.join(sep)
RECURSIVE join(_, _)
join(parts, sep) ==
    IF parts = << >> THEN << >>
    ELSE IF Len(parts) = 1 THEN parts[1]
    ELSE parts[1] \o sep \o join(Tail(parts), sep)

\* The end of the longest run of digits of s that starts at position i
\* (i - 1 when s[i] is no digit).
DigitRunEnd(s, i) ==
    IF i > Len(s) THEN i - 1
    ELSE CHOOSE j \in (i - 1)..Len(s) :
            /\ \A k \in i..j : IsDigit(s[k])
            /\ (j = Len(s) \/ ~IsDigit(s[j + 1]))
SpaceRunEnd(s, i) ==
    IF i > Len(s) THEN i - 1
    ELSE CHOOSE j \in (i - 1)..Len(s) :
            /\ \A k \in i..j : IsSpace(s[k])
            /\ (j = Len(s) \/ ~IsSpace(s[j + 1]))
\* the character of s at position k, or no character beyond its end
CharAt(s, k) == IF k \in 1..Len(s) THEN s[k] ELSE ""

\* Number(string): the empty or blank string is 0, a decimal numeral its
\* value, anything else NaN
Number(s) ==
    LET t == trim(s)
    IN  IF t = << >> THEN 0
        ELSE IF AllDigits(t) THEN DigitsValue(t)
        ELSE NaN

\* parseInt(string): the value of the leading decimal numeral, NaN without one
parseInt(s) ==
    LET t == trimStart(s)
        e == DigitRunEnd(t, 1)
    IN  IF e = 0 THEN NaN ELSE DigitsValue(SubSeq(t, 1, e))

----------------------------------------------------------------------------
(* formatTimeForYoutube, lines 43-55 *)

\* variant: the seconds are not padded
formatTimeForYoutube_NoPad(seconds) ==
    LET hours == seconds \div 3600
        minutes == (seconds % 3600) \div 60
        remainingSeconds == seconds % 60
    IN  IF hours > 0
        THEN toString(hours) \o <<":">> \o padStart(toString(minutes), 2, "0")
                 \o <<":">> \o toString(remainingSeconds)
        ELSE toString(minutes) \o <<":">> \o toString(remainingSeconds)

formatTimeForYoutube(seconds) ==
    LET hours == seconds \div 3600
        minutes == (seconds % 3600) \div 60
        remainingSeconds == seconds % 60
    IN  IF hours > 0
        THEN toString(hours) \o <<":">> \o padStart(toString(minutes), 2, "0")
                 \o <<":">> \o padStart(toString(remainingSeconds), 2, "0")
        ELSE toString(minutes) \o <<":">> \o padStart(toString(remainingSeconds), 2, "0")

----------------------------------------------------------------------------
(* Dates.  new Date() is some instant of day Today; setFullYear(y, m, d)   *)
(* moves a Date to another day; setHours(h, m, s) keeps the day and sets   *)
(* the time of day, rolling over for components beyond their range, and    *)
(* gives an Invalid Date for a NaN (or undefined) component.               *)

Today == 0
SecondsPerDay == 86400

MsPerDay == 86400000

\* new Date(ms) for an instant given in milliseconds since local midnight of
\* day 0; a NaN time value gives an Invalid Date
newDate(ms) == IF ms = NaN THEN InvalidDate ELSE ms

\* lines 101-104: the day of baseDate; setFullYear with the NaN year, month
\* and day of an Invalid Date makes the Date invalid
baseDate(startDate) ==
    IF startDate = null THEN Today
    ELSE IF startDate = InvalidDate THEN InvalidDate
    ELSE startDate \div MsPerDay

setHours(day, h, m, s) ==
    IF day = InvalidDate \/ h = NaN \/ m = NaN \/ s = NaN THEN InvalidDate
    ELSE day * SecondsPerDay + h * 3600 + m * 60 + s

\* Date.prototype.getHours, getMinutes, getSeconds of a valid Date
getHours(d) == (d \div 3600000) % 24
getMinutes(d) == (d \div 60000) % 60
getSeconds(d) == (d \div 1000) % 60

\* a + b of two JavaScript numbers
plus(a, b) == IF a = NaN \/ b = NaN THEN NaN ELSE a + b

\* variant: the operands are exchanged
differenceInSeconds_Swapped(a, b) == b - a

\* date-fns differenceInSeconds of two valid Dates that share their
\* millisecond part
differenceInSeconds(a, b) == a - b

\* const [h, m, s] = str.split(':').map(Number): a component that is absent
\* is undefined, which every use below treats as NaN
Component(parts, k) == IF k <= Len(parts) THEN Number(parts[k]) ELSE NaN

\* x || 0
OrZero(x) == IF x = NaN THEN 0 ELSE x

----------------------------------------------------------------------------
(* date-fns parse(str, "HH:mm", ...) : each of HH and mm takes one or two  *)
(* digits, the ':' must follow, nothing but white space may remain, the    *)
(* hour must be 0..23 and the minute 0..59; otherwise the Date is invalid  *)
(* (parse does not throw; format() of an Invalid Date throws).             *)

TwoDigitEnd(s, i) ==
    LET e == DigitRunEnd(s, i) IN IF e > i + 1 THEN i + 1 ELSE e

parseHHmm(s) ==
    LET he == TwoDigitEnd(s, 1)
        me == TwoDigitEnd(s, he + 2)
        hour == DigitsValue(SubSeq(s, 1, he))
        minute == DigitsValue(SubSeq(s, he + 2, me))
    IN  IF /\ he >= 1
           /\ he + 1 <= Len(s) /\ s[he + 1] = ":"
           /\ me >= he + 2
           /\ \A k \in (me + 1)..Len(s) : IsSpace(s[k])
           /\ hour <= 23 /\ minute <= 59
        THEN [valid |-> TRUE, hours |-> hour, minutes |-> minute]
        ELSE [valid |-> FALSE, hours |-> NaN, minutes |-> NaN]

(* normalizeTimeInput, lines 57-85 *)
normalizeTimeInput(timeInput) ==
    IF timeInput = EmptyString THEN EmptyString
    ELSE
    LET timeParts == split(timeInput, ":")
        hasSeconds == Len(timeParts) > 2
        date == parseHHmm(timeInput)
        hours0 == parseInt(timeParts[1])
        minutes == IF Len(timeParts) >= 2 /\ timeParts[2] # EmptyString
                   THEN parseInt(timeParts[2]) ELSE 0
        hours == IF hours0 # NaN /\ hours0 < 12 THEN hours0 + 12 ELSE hours0
    IN  IF hasSeconds THEN timeInput
        ELSE IF date.valid
        THEN padStart(toString(date.hours), 2, "0") \o <<":">>
                 \o padStart(toString(date.minutes), 2, "0") \o <<":", "0", "0">>
        ELSE padStart(toString(hours), 2, "0") \o <<":">>
                 \o padStart(toString(minutes), 2, "0") \o <<":", "0", "0">>

----------------------------------------------------------------------------
(* calculateTimestamps, lines 87-160 *)

max(a, b) == IF a >= b THEN a ELSE b

\* lines 107-109: the Date of the video start
videoStartOf(normalizedStartTime, day) ==
    LET p == split(normalizedStartTime, ":")
    IN  setHours(day, Component(p, 1), Component(p, 2), OrZero(Component(p, 3)))

\* variant: a negative difference is always wrapped by a day (the rule of the
\* earlier revisions of the component)
entryOffset_Unconditional(pullTime, normalizedStartTime, day) ==
    LET p == split(pullTime, ":")
        pull == setHours(day, Component(p, 1), Component(p, 2), OrZero(Component(p, 3)))
        diffInSeconds ==
            differenceInSeconds(pull, videoStartOf(normalizedStartTime, day))
    IN  IF diffInSeconds < 0 THEN diffInSeconds + SecondsPerDay ELSE diffInSeconds

\* variant: a negative difference is never wrapped, only clamped
entryOffset_NoWrap(pullTime, normalizedStartTime, day) ==
    LET p == split(pullTime, ":")
        pull == setHours(day, Component(p, 1), Component(p, 2), OrZero(Component(p, 3)))
        diffInSeconds ==
            differenceInSeconds(pull, videoStartOf(normalizedStartTime, day))
    IN  IF diffInSeconds < 0 THEN 0 ELSE diffInSeconds

\* variant: the difference is handed on without Math.max(0, ...)
entryOffset_NoClamp(pullTime, normalizedStartTime, day) ==
    LET p == split(pullTime, ":")
        pullHours == Component(p, 1)
        startHours == Component(split(normalizedStartTime, ":"), 1)
        pull == setHours(day, pullHours, Component(p, 2), OrZero(Component(p, 3)))
        videoStart == videoStartOf(normalizedStartTime, day)
        diffInSeconds == differenceInSeconds(pull, videoStart)
        nextDayPullTime == pull + SecondsPerDay
    IN  IF diffInSeconds < 0 /\ pullHours < startHours
        THEN differenceInSeconds(nextDayPullTime, videoStart)
        ELSE diffInSeconds

\* lines 116-135: the seconds handed to formatTimeForYoutube for one entry
\* whose pull Date is valid
entryOffset(pullTime, normalizedStartTime, day) ==
    LET p == split(pullTime, ":")
        pullHours == Component(p, 1)
        startHours == Component(split(normalizedStartTime, ":"), 1)
        pull == setHours(day, pullHours, Component(p, 2), OrZero(Component(p, 3)))
        videoStart == videoStartOf(normalizedStartTime, day)
        diffInSeconds == differenceInSeconds(pull, videoStart)
        nextDayPullTime == pull + SecondsPerDay
    IN  IF diffInSeconds < 0 /\ pullHours < startHours
        THEN max(0, differenceInSeconds(nextDayPullTime, videoStart))
        ELSE max(0, diffInSeconds)

\* variant: nothing throws for an Invalid Date, the NaN difference is formatted
formatEntry_NoThrow(entry, normalizedStartTime, day) ==
    LET p == split(entry.pullTime, ":")
        pull == setHours(day, Component(p, 1), Component(p, 2), OrZero(Component(p, 3)))
    IN  IF pull = InvalidDate
        THEN <<"N", "a", "N", ":", "N", "a", "N", " ">> \o entry.name
        ELSE formatTimeForYoutube(entryOffset(entry.pullTime, normalizedStartTime, day))
                 \o <<" ">> \o entry.name

\* lines 113-143: the callback of entries.map; pullTime.toISOString() at
\* line 122 throws for an Invalid Date and the catch yields the placeholder
formatEntry(entry, normalizedStartTime, day) ==
    LET p == split(entry.pullTime, ":")
        pull == setHours(day, Component(p, 1), Component(p, 2), OrZero(Component(p, 3)))
    IN  IF pull = InvalidDate
        THEN <<"E", "r", "r", "o", "r", " ">> \o entry.name
        ELSE formatTimeForYoutube(entryOffset(entry.pullTime, normalizedStartTime, day))
                 \o <<" ">> \o entry.name

\* variant: the lines come out last entry first
formattedEntries_Reversed(es, normalizedStartTime, day) ==
    join([i \in 1..Len(es) |-> formatEntry(es[Len(es) + 1 - i], normalizedStartTime, day)],
         <<"\n">>)

formattedEntries(es, normalizedStartTime, day) ==
    join([i \in 1..Len(es) |-> formatEntry(es[i], normalizedStartTime, day)], <<"\n">>)

ToastMissing ==
    [title |-> "Missing information",
     description |-> "Please set a video start time and add at least one pull.",
     variant |-> "destructive"]
ToastCalculated ==
    [title |-> "Timestamps calculated",
     description |-> "Your YouTube timestamps are ready to copy.",
     variant |-> "default"]
ToastCalcError ==
    [title |-> "Error calculating timestamps",
     description |-> "Please check your time formats and try again.",
     variant |-> "destructive"]

\* lines 88-95 and 152-159: the early return and the catch block raise a
\* notice and write nothing
calculateFails(notice) ==
    /\ toast' = notice
    /\ UNCHANGED youtubeFormatted

calculateTimestamps ==
    /\ lastAction' = "calculateTimestamps"
    /\ UNCHANGED <<videoStartTime, entries, infoDialogOpen, pastedLogs, logsUrl,
                   isLoading, logStartDate, now, call, ret, request,
                   clipboard>>
    /\ IF videoStartTime = EmptyString \/ Len(entries) = 0
       THEN calculateFails(ToastMissing)
       ELSE LET normalizedStartTime == normalizeTimeInput(videoStartTime)
                day == baseDate(logStartDate)
            IN  IF videoStartOf(normalizedStartTime, day) = InvalidDate
                THEN \* videoStart.toISOString() throws at line 111
                     calculateFails(ToastCalcError)
                ELSE /\ youtubeFormatted' =
                            formattedEntries(entries, normalizedStartTime, day)
                     /\ toast' = ToastCalculated

(* removePull, lines 162-164 *)
\* variant: a removal also empties the output
removePull_ClearsOutput(id) ==
    /\ entries' = LET keep(e) == e.id # id IN SelectSeq(entries, keep)
    /\ youtubeFormatted' = EmptyString
    /\ lastAction' = "removePull"
    /\ UNCHANGED <<videoStartTime, infoDialogOpen, pastedLogs, logsUrl, isLoading,
                   logStartDate, toast, now, call, ret, request, clipboard>>

removePull(id) ==
    /\ entries' = LET keep(e) == e.id # id IN SelectSeq(entries, keep)
    /\ lastAction' = "removePull"
    /\ UNCHANGED <<videoStartTime, infoDialogOpen, pastedLogs, youtubeFormatted,
                   logsUrl, isLoading, logStartDate, toast, now, call, ret, request,
                   clipboard>>

(* copyToClipboard, lines 166-179 *)
ToastGenerateFirst ==
    [title |-> "", description |-> "Generate timestamps first.", variant |-> "destructive"]
ToastCopied ==
    [title |-> "", description |-> "Timestamps copied to clipboard.", variant |-> "default"]

copyToClipboard ==
    /\ lastAction' = "copyToClipboard"
    /\ UNCHANGED <<appState, now, call, ret, request>>
    /\ IF youtubeFormatted = EmptyString
       THEN /\ toast' = ToastGenerateFirst
            /\ UNCHANGED clipboard
       ELSE /\ clipboard' = youtubeFormatted
            /\ toast' = ToastCopied

\* the Copy button is rendered only with an output to show, line 545
copyShown == youtubeFormatted # EmptyString

----------------------------------------------------------------------------
(* parseWarcraftlogs, lines 181-286.  Each regular expression is matched   *)
(* as the JavaScript engine matches it: anchored ones at the start of the  *)
(* line, the others at the leftmost position where a match exists, \d+ and *)
(* \s+ taking the whole run.                                               *)

PullPrefix == <<"P", "u", "l", "l", " ">>
NoMatch == [matched |-> FALSE]

\* healthRegex = /^(\d+)%/ , line 203
healthMatch(line) ==
    LET e == DigitRunEnd(line, 1)
    IN  IF e >= 1 /\ CharAt(line, e + 1) = "%"
        THEN [matched |-> TRUE, g1 |-> SubSeq(line, 1, e)]
        ELSE NoMatch

\* phaseRegex = /(P\d+|I\d+)/ , line 202
phaseMatch(line) ==
    LET At(k) == line[k] \in {"P", "I"} /\ IsDigit(CharAt(line, k + 1))
    IN  IF \E k \in 1..Len(line) : At(k)
        THEN LET k == CHOOSE k \in 1..Len(line) : At(k) /\ \A j \in 1..(k - 1) : ~At(j)
             IN  [matched |-> TRUE, g1 |-> SubSeq(line, k, DigitRunEnd(line, k + 1))]
        ELSE NoMatch

\* pullNumberRegex = /^(\d+)\s+\((\d+):(\d+)\)/ , line 200
pullMatch(line) ==
    LET e1 == DigitRunEnd(line, 1)
        w == SpaceRunEnd(line, e1 + 1)
        e2 == DigitRunEnd(line, w + 2)
        e3 == DigitRunEnd(line, e2 + 2)
    IN  IF /\ e1 >= 1
           /\ w >= e1 + 1
           /\ CharAt(line, w + 1) = "("
           /\ e2 >= w + 2
           /\ CharAt(line, e2 + 1) = ":"
           /\ e3 >= e2 + 2
           /\ CharAt(line, e3 + 1) = ")"
        THEN [matched |-> TRUE, g1 |-> SubSeq(line, 1, e1),
              g2 |-> SubSeq(line, w + 2, e2), g3 |-> SubSeq(line, e2 + 2, e3)]
        ELSE NoMatch

\* timeRegex = /(\d+):(\d+)\s+(AM|PM)/ , line 201
timeMatchAt(line, k) ==
    LET e1 == DigitRunEnd(line, k)
        e2 == DigitRunEnd(line, e1 + 2)
        w == SpaceRunEnd(line, e2 + 1)
    IN  /\ e1 >= k
        /\ CharAt(line, e1 + 1) = ":"
        /\ e2 >= e1 + 2
        /\ w >= e2 + 1
        /\ CharAt(line, w + 1) \in {"A", "P"}
        /\ CharAt(line, w + 2) = "M"
timeMatch(line) ==
    IF \E k \in 1..Len(line) : timeMatchAt(line, k)
    THEN LET k == CHOOSE k \in 1..Len(line) :
                      timeMatchAt(line, k) /\ \A j \in 1..(k - 1) : ~timeMatchAt(line, j)
             e1 == DigitRunEnd(line, k)
             e2 == DigitRunEnd(line, e1 + 2)
             w == SpaceRunEnd(line, e2 + 1)
         IN  [matched |-> TRUE, g1 |-> SubSeq(line, k, e1),
              g2 |-> SubSeq(line, e1 + 2, e2), g3 |-> SubSeq(line, w + 1, w + 2)]
    ELSE NoMatch

\* variant: 12 AM is left at hour 12
convertTime_NoMidnight(m) ==
    LET hour0 == parseInt(m.g1)
        hour == IF m.g3 = <<"P", "M">> /\ hour0 < 12 THEN hour0 + 12 ELSE hour0
    IN  padStart(toString(hour), 2, "0") \o <<":">> \o m.g2 \o <<":", "0", "0">>

\* lines 228-235: the 24-hour HH:MM:00 string of a matched time token
convertTime(m) ==
    LET hour0 == parseInt(m.g1)
        hour1 == IF m.g3 = <<"P", "M">> /\ hour0 < 12 THEN hour0 + 12 ELSE hour0
        hour == IF m.g3 = <<"A", "M">> /\ hour1 = 12 THEN 0 ELSE hour1
    IN  padStart(toString(hour), 2, "0") \o <<":">> \o m.g2 \o <<":", "0", "0">>

\* variant: the health part is written before the phase part
formatName_HealthFirst(f) ==
    <<"P", "u", "l", "l", " ">> \o f.pullNumber
        \o (IF f.health # EmptyString THEN <<" ", "-", " ">> \o f.health ELSE << >>)
        \o (IF f.phase # EmptyString THEN <<":", " ">> \o f.phase ELSE << >>)
        \o (IF f.pullDuration # EmptyString
            THEN <<" ", "(">> \o f.pullDuration \o <<")">> ELSE << >>)

\* lines 238-250
formatName(f) ==
    PullPrefix \o f.pullNumber
        \o (IF f.phase # EmptyString THEN <<":", " ">> \o f.phase ELSE << >>)
        \o (IF f.health # EmptyString THEN <<" ", "-", " ">> \o f.health ELSE << >>)
        \o (IF f.pullDuration # EmptyString
            THEN <<" ", "(">> \o f.pullDuration \o <<")">> ELSE << >>)

NoFields ==
    [pullNumber |-> EmptyString, pullDuration |-> EmptyString, phase |-> EmptyString,
     health |-> EmptyString, time |-> EmptyString]

\* variant: on a line with a time token, health and phase are read only after
\* the entry is emitted, so they do not reach its name
fieldsAfterLine_TimeFirst(f, line) ==
    LET h == healthMatch(line)
        ph == phaseMatch(line)
        pl == pullMatch(line)
        late == timeMatch(line).matched
    IN  [pullNumber |-> IF pl.matched THEN pl.g1 ELSE f.pullNumber,
         pullDuration |-> IF pl.matched THEN pl.g2 \o <<":">> \o pl.g3 ELSE f.pullDuration,
         phase |-> IF ph.matched /\ ~late THEN ph.g1 ELSE f.phase,
         health |-> IF h.matched /\ ~late THEN h.g1 \o <<"%">> ELSE f.health,
         time |-> f.time]

\* variant: a pull-number line is ignored while a pull number is pending
fieldsAfterLine_KeepFirst(f, line) ==
    LET h == healthMatch(line)
        ph == phaseMatch(line)
        pl == pullMatch(line)
        first == pl.matched /\ f.pullNumber = EmptyString
    IN  [pullNumber |-> IF first THEN pl.g1 ELSE f.pullNumber,
         pullDuration |-> IF first THEN pl.g2 \o <<":">> \o pl.g3 ELSE f.pullDuration,
         phase |-> IF ph.matched THEN ph.g1 ELSE f.phase,
         health |-> IF h.matched THEN h.g1 \o <<"%">> ELSE f.health,
         time |-> f.time]

\* lines 210-224: the running fields after the health, phase and pull-number
\* matches of one line
fieldsAfterLine(f, line) ==
    LET h == healthMatch(line)
        ph == phaseMatch(line)
        pl == pullMatch(line)
    IN  [pullNumber |-> IF pl.matched THEN pl.g1 ELSE f.pullNumber,
         pullDuration |-> IF pl.matched THEN pl.g2 \o <<":">> \o pl.g3 ELSE f.pullDuration,
         phase |-> IF ph.matched THEN ph.g1 ELSE f.phase,
         health |-> IF h.matched THEN h.g1 \o <<"%">> ELSE f.health,
         time |-> f.time]

\* variant: the id is the clock reading alone
entryId_ClockOnly(clock, i) == toString(clock[i])

\* line 253: Date.now() + i.toString(), the decimal clock reading followed by
\* the decimal line index
entryId(clock, i) == toString(clock[i]) \o toString(i)

\* variant: the running fields are kept after an entry is emitted
RECURSIVE scanLines_NoReset(_, _, _, _, _)
scanLines_NoReset(lines, i, f, parsedEntries, clock) ==
    IF i >= Len(lines) THEN parsedEntries
    ELSE
    LET line == trim(lines[i + 1])
        g == fieldsAfterLine(f, line)
        t == timeMatch(line)
        currentTime == convertTime(t)
    IN  IF line = EmptyString THEN scanLines_NoReset(lines, i + 1, f, parsedEntries, clock)
        ELSE IF ~t.matched THEN scanLines_NoReset(lines, i + 1, g, parsedEntries, clock)
        ELSE IF g.pullNumber # EmptyString
        THEN scanLines_NoReset(lines, i + 1, [g EXCEPT !.time = currentTime],
                               Append(parsedEntries,
                                      [id |-> entryId(clock, i),
                                       name |-> formatName(g),
                                       pullTime |-> currentTime]),
                               clock)
        ELSE scanLines_NoReset(lines, i + 1, [g EXCEPT !.time = currentTime],
                               parsedEntries, clock)

\* lines 205-265: the loop from line index i (0-based) on; clock[i] is the
\* reading of Date.now() at line i
RECURSIVE scanLines(_, _, _, _, _)
scanLines(lines, i, f, parsedEntries, clock) ==
    IF i >= Len(lines) THEN parsedEntries
    ELSE
    LET line == trim(lines[i + 1])
        g == fieldsAfterLine(f, line)
        t == timeMatch(line)
        currentTime == convertTime(t)
    IN  IF line = EmptyString THEN scanLines(lines, i + 1, f, parsedEntries, clock)
        ELSE IF ~t.matched THEN scanLines(lines, i + 1, g, parsedEntries, clock)
        ELSE IF g.pullNumber # EmptyString
        THEN scanLines(lines, i + 1, NoFields,
                       Append(parsedEntries,
                              [id |-> entryId(clock, i),
                               name |-> formatName(g),
                               pullTime |-> currentTime]),
                       clock)
        ELSE scanLines(lines, i + 1, [g EXCEPT !.time = currentTime], parsedEntries, clock)

\* variant: a text without entries is reported as valid
parseWarcraftlogs_NoEmptyCheck(text, clock) ==
    IF trim(text) = EmptyString
    THEN [valid |-> FALSE, entries |-> << >>, errorMessage |-> "No text provided"]
    ELSE [valid |-> TRUE,
          entries |-> scanLines(split(text, "\n"), 0, NoFields, << >>, clock),
          errorMessage |-> undefined]

parseWarcraftlogs(text, clock) ==
    IF trim(text) = EmptyString
    THEN [valid |-> FALSE, entries |-> << >>, errorMessage |-> "No text provided"]
    ELSE LET parsedEntries == scanLines(split(text, "\n"), 0, NoFields, << >>, clock)
         IN  IF Len(parsedEntries) = 0
             THEN [valid |-> FALSE, entries |-> << >>,
                   errorMessage |->
                       "No valid pull data found in the text. Make sure it includes times in the format '7:46 PM'."]
             ELSE [valid |-> TRUE, entries |-> parsedEntries, errorMessage |-> undefined]

\* Date.now() read once per line of a text, the clock standing at t
steadyClock(text, t) == [i \in 0..(Len(split(text, "\n")) - 1) |-> t]

----------------------------------------------------------------------------
(* importPulls, lines 288-307 *)

MaxClock == 1

\* The readings of Date.now() at the lines of a text when the clock stands at
\* t as the call starts: it stays, or moves on by a millisecond at some line.
ClockRuns(text, t) ==
    LET n == Len(split(text, "\n"))
    IN  {[i \in 0..(n - 1) |-> IF i >= k /\ t < MaxClock THEN t + 1 ELSE t] : k \in 0..n}

ToastImportFailed(result) ==
    [title |-> "Import failed",
     description |-> IF result.errorMessage \in {undefined, ""}
                     THEN "Could not parse the logs" ELSE result.errorMessage,
     variant |-> "destructive"]
\* description: `Successfully imported ${count} pulls from logs.`
ToastImported(count) ==
    [title |-> "Pulls imported", description |-> count, variant |-> "default"]

\* variant: the parsed entries are put in front of the list
appendEntries_Prepends(list, parsedEntries) == parsedEntries \o list

\* line 300: [...entries, ...result.entries]
appendEntries(list, parsedEntries) == list \o parsedEntries

importPulls ==
    \E clock \in ClockRuns(pastedLogs, now) :
        LET result == parseWarcraftlogs(pastedLogs, clock)
        IN  /\ now' = clock[Len(split(pastedLogs, "\n")) - 1]
            /\ lastAction' = "importPulls"
            /\ UNCHANGED <<videoStartTime, infoDialogOpen, youtubeFormatted, logsUrl,
                           isLoading, logStartDate, call, ret, request,
                   clipboard>>
            /\ IF ~result.valid
               THEN /\ toast' = ToastImportFailed(result)
                    /\ UNCHANGED <<entries, pastedLogs>>
               ELSE /\ entries' = appendEntries(entries, result.entries)
                    /\ pastedLogs' = EmptyString
                    /\ toast' = ToastImported(Len(result.entries))

(* clearAll, lines 34-41 *)
\* variant: the output survives the reset
clearAll_KeepsOutput ==
    /\ entries' = << >>
    /\ videoStartTime' = EmptyString
    /\ pastedLogs' = EmptyString
    /\ logsUrl' = EmptyString
    /\ logStartDate' = null
    /\ lastAction' = "clearAll"
    /\ UNCHANGED <<infoDialogOpen, isLoading, youtubeFormatted, toast, now, call, ret,
                   request, clipboard>>

clearAll ==
    /\ entries' = << >>
    /\ videoStartTime' = EmptyString
    /\ pastedLogs' = EmptyString
    /\ youtubeFormatted' = EmptyString
    /\ logsUrl' = EmptyString
    /\ logStartDate' = null
    /\ lastAction' = "clearAll"
    /\ UNCHANGED <<infoDialogOpen, isLoading, toast, now, call, ret, request,
                   clipboard>>

(* the disabled attributes of the Import and Generate buttons, lines 474, 539 *)
importDisabled == trim(pastedLogs) = EmptyString
generateDisabled == videoStartTime = EmptyString \/ Len(entries) = 0

(* the onChange handlers of the two inputs, setVideoStartTime and setPastedLogs *)
setVideoStartTime(value) ==
    /\ videoStartTime' = value
    /\ lastAction' = "setVideoStartTime"
    /\ UNCHANGED <<entries, infoDialogOpen, pastedLogs, youtubeFormatted, logsUrl,
                   isLoading, logStartDate, toast, now, call, ret, request,
                   clipboard>>
setPastedLogs(value) ==
    /\ pastedLogs' = value
    /\ lastAction' = "setPastedLogs"
    /\ UNCHANGED <<videoStartTime, entries, infoDialogOpen, youtubeFormatted, logsUrl,
                   isLoading, logStartDate, toast, now, call, ret, request,
                   clipboard>>

----------------------------------------------------------------------------
(* fetchLogsFromUrl, lines 309-415.  The handler runs up to the await of   *)
(* fetch() and is resumed when the request settles; what it reads of the   *)
(* component state after the await are the values its closure captured     *)
(* when it was called.                                                     *)

Letters ==
    {"a", "b", "c", "d", "e", "f", "g", "h", "i", "j", "k", "l", "m", "n", "o", "p", "q", "r", "s", "t", "u", "v", "w", "x", "y", "z",
     "A", "B", "C", "D", "E", "F", "G", "H", "I", "J", "K", "L", "M", "N", "O", "P", "Q", "R", "S", "T", "U", "V", "W", "X", "Y", "Z"}
IsAlnum(c) == c \in Letters \/ IsDigit(c)
AlnumRunEnd(s, i) ==
    IF i > Len(s) THEN i - 1
    ELSE CHOOSE j \in (i - 1)..Len(s) :
            /\ \A k \in i..j : IsAlnum(s[k])
            /\ (j = Len(s) \/ ~IsAlnum(s[j + 1]))

\* logsUrl.match(/reports\/([a-zA-Z0-9]+)/), line 321
ReportsPrefix == <<"r", "e", "p", "o", "r", "t", "s", "/">>
urlMatch(url) ==
    LET At(k) == /\ k + 8 <= Len(url)
                 /\ SubSeq(url, k, k + 7) = ReportsPrefix
                 /\ IsAlnum(url[k + 8])
    IN  IF \E k \in 1..Len(url) : At(k)
        THEN LET k == CHOOSE k \in 1..Len(url) : At(k) /\ \A j \in 1..(k - 1) : ~At(j)
             IN  [matched |-> TRUE, g1 |-> SubSeq(url, k + 8, AlnumRunEnd(url, k + 8))]
        ELSE NoMatch

\* an optional numeric field that a fight of the report does not carry
absent == -2

ToastEnterUrl ==
    [title |-> "", description |-> "Please enter a Warcraftlogs URL", variant |-> "destructive"]
\* description: error.message
ToastFetchFailed(message) ==
    [title |-> "Import failed", description |-> message, variant |-> "destructive"]
\* description: `Successfully imported ${count} pulls from WarcraftLogs.`
ToastLogsImported(count) ==
    [title |-> "Logs imported", description |-> count, variant |-> "default"]

\* lines 356-363: the local time of day of a fight's start, HH:MM:SS
fightPullTime(fightStartTime) ==
    padStart(toString(getHours(fightStartTime)), 2, "0") \o <<":">>
        \o padStart(toString(getMinutes(fightStartTime)), 2, "0") \o <<":">>
        \o padStart(toString(getSeconds(fightStartTime)), 2, "0")

\* lines 355-395: the callback of map for one boss fight whose start is a
\* valid Date; index counts the fights that passed the filter, from 0
apiEntry(data, fight, index) ==
    LET fightStartTime == newDate(plus(data.start, fight.startTime))
        durationSeconds == (fight.endTime - fight.startTime) \div 1000
        durationMinutes == durationSeconds \div 60
        durationRemainingSeconds == durationSeconds % 60
        durationFormatted ==
            toString(durationMinutes) \o <<":">>
                \o padStart(toString(durationRemainingSeconds), 2, "0")
        bossPercentage ==
            IF fight.bossPercentage \notin {absent, 0}
            THEN toString((10000 - fight.bossPercentage) \div 100) \o <<"%">>
            ELSE EmptyString
        phase ==
            IF fight.lastPhaseForPercentageDisplay \notin {absent, 0}
            THEN (IF fight.lastPhaseIsIntermission THEN <<"I">> ELSE <<"P">>)
                     \o toString(fight.lastPhaseForPercentageDisplay)
            ELSE EmptyString
        entryName ==
            PullPrefix \o toString(index + 1)
                \o (IF phase # EmptyString THEN <<":", " ">> \o phase ELSE << >>)
                \o (IF bossPercentage # EmptyString
                    THEN <<" ", "-", " ">> \o bossPercentage ELSE << >>)
                \o <<" ", "(">> \o durationFormatted \o <<")">>
    IN  [id |-> <<"a", "p", "i", "-">> \o toString(fight.id) \o <<"-">> \o toString(index),
         name |-> entryName,
         pullTime |-> fightPullTime(fightStartTime)]

\* line 354
bossFights(data) == LET isBoss(fight) == fight.boss # 0 IN SelectSeq(data.fights, isBoss)

\* variant: the pulls are numbered by their position in the whole fight list
apiEntries_UnfilteredIndex(data) ==
    LET position(k) ==
            CHOOSE n \in 1..Len(data.fights) :
                /\ data.fights[n].boss # 0
                /\ Cardinality({j \in 1..n : data.fights[j].boss # 0}) = k
    IN  [k \in 1..Len(bossFights(data)) |->
            apiEntry(data, bossFights(data)[k], position(k) - 1)]

\* lines 353-396
apiEntries(data) ==
    [k \in 1..Len(bossFights(data)) |-> apiEntry(data, bossFights(data)[k], k - 1)]

\* fightStartTime.toISOString() at line 358 throws a RangeError for a fight
\* whose start is an Invalid Date
apiEntriesThrow(data) ==
    \E k \in 1..Len(bossFights(data)) :
        newDate(plus(data.start, bossFights(data)[k].startTime)) = InvalidDate

\* the message of the Error that line 334 throws
HttpFailedMessage(status) ==
    IF status = 404 THEN "API request failed with status 404"
    ELSE IF status = 500 THEN "API request failed with status 500"
    ELSE "API request failed with status <status>"

\* variant: without the finally block isLoading keeps the value line 318 gave it
fetchFinally_Missing == isLoading' = TRUE

\* lines 412-414: the finally block
fetchFinally == isLoading' = FALSE

\* lines 309-331: from the click to the await of fetch()
fetchLogsFromUrl ==
    /\ lastAction' = "fetchLogsFromUrl"
    /\ UNCHANGED <<videoStartTime, entries, infoDialogOpen, pastedLogs, youtubeFormatted,
                   logsUrl, logStartDate, now, call, ret, clipboard>>
    /\ IF logsUrl = EmptyString
       THEN /\ toast' = ToastEnterUrl
            /\ UNCHANGED <<isLoading, request>>
       ELSE IF ~urlMatch(logsUrl).matched
       THEN \* setIsLoading(true), the throw of line 323, catch and finally
            /\ toast' = ToastFetchFailed("Invalid Warcraftlogs URL format")
            /\ fetchFinally
            /\ UNCHANGED request
       ELSE /\ isLoading' = TRUE
            /\ request' = Append(request, [reportId |-> urlMatch(logsUrl).g1,
                                           entries |-> entries])
            /\ UNCHANGED toast

\* variant: the catch block also clears the URL field
fetchFails_ClearsUrl(message) ==
    /\ toast' = ToastFetchFailed(message)
    /\ logsUrl' = EmptyString
    /\ UNCHANGED entries

\* lines 405-411: the catch block after the await
fetchFails(message) ==
    /\ toast' = ToastFetchFailed(message)
    /\ UNCHANGED <<entries, logsUrl>>

\* lines 329-414: one of the awaited fetch() calls settles with the response
\* and its handler runs to its end; request[k].entries is the entry list the
\* closure of that handler captured
fetchSettles(response) ==
    \E k \in 1..Len(request) :
    LET data == response.data
        logStartDateObj == newDate(data.start)
        fails(message) == fetchFails(message)
    IN  /\ request' = SubSeq(request, 1, k - 1) \o SubSeq(request, k + 1, Len(request))
        /\ fetchFinally
        /\ lastAction' = "fetchSettles"
        /\ UNCHANGED <<videoStartTime, infoDialogOpen, pastedLogs, youtubeFormatted,
                       now, call, ret, clipboard>>
        /\ IF response.rejected
           THEN fails("Failed to fetch") /\ UNCHANGED logStartDate
           ELSE IF ~response.ok
           THEN fails(HttpFailedMessage(response.status)) /\ UNCHANGED logStartDate
           ELSE IF ~response.json
           THEN fails("Unexpected token in JSON") /\ UNCHANGED logStartDate
           ELSE IF data.error # ""
           THEN fails(data.error) /\ UNCHANGED logStartDate
           ELSE IF ~data.hasFights \/ Len(data.fights) = 0
           THEN fails("No fights found in the log") /\ UNCHANGED logStartDate
           ELSE IF logStartDateObj = InvalidDate \/ apiEntriesThrow(data)
           THEN \* setLogStartDate at line 349 precedes the toISOString() calls
                \* of lines 351 and 358
                fails("Invalid time value") /\ logStartDate' = logStartDateObj
           ELSE /\ logStartDate' = logStartDateObj
                /\ entries' = request[k].entries \o apiEntries(data)
                /\ logsUrl' = EmptyString
                /\ toast' = ToastLogsImported(Len(apiEntries(data)))

(* the disabled attribute of the Fetch button, line 492, and the onChange  *)
(* handler of the URL input, line 488                                      *)
\* variant: the button stays enabled while a fetch is awaited
fetchDisabled_IgnoresLoading == trim(logsUrl) = EmptyString
fetchDisabled == trim(logsUrl) = EmptyString \/ isLoading
setLogsUrl(value) ==
    /\ logsUrl' = value
    /\ lastAction' = "setLogsUrl"
    /\ UNCHANGED <<videoStartTime, entries, infoDialogOpen, pastedLogs, youtubeFormatted,
                   isLoading, logStartDate, toast, now, call, ret, request,
                   clipboard>>

----------------------------------------------------------------------------
(* calculateTimestamps on typed-in reference times and entry lists.        *)
(* PullTimeInputs are pull times the parser and the remote import produce  *)
(* (the last two from the tokens "99:99 PM" and "7:5 PM");                 *)
(* MalformedPullTimes are further strings of the declared type of          *)
(* TimestampEntry.pullTime.                                                *)

MaxGenEntries == 2

RefInputs ==
    {<<"1", "9", ":", "3", "0">>,
     <<"1", "9", ":", "3", "0", ":", "0", "0">>,
     <<"2", "3", ":", "5", "0", ":", "0", "0">>,
     <<"0", "0", ":", "0", "0", ":", "0", "0">>,
     <<"1", "2", ":", "0", "0", ":", "0", "0">>,
     <<"7", ":", "3", "0">>,
     <<"a", "b">>,
     <<>>}

PullTimeInputs ==
    <<<<"1", "9", ":", "4", "6", ":", "0", "0">>,
      <<"1", "9", ":", "2", "0", ":", "0", "0">>,
      <<"1", "9", ":", "3", "0", ":", "0", "0">>,
      <<"0", "0", ":", "0", "5", ":", "0", "0">>,
      <<"2", "3", ":", "5", "9", ":", "5", "9">>,
      <<"0", "0", ":", "0", "0", ":", "0", "0">>,
      <<"1", "2", ":", "0", "0", ":", "3", "0">>,
      <<"2", "3", ":", "5", "0", ":", "0", "0">>,
      <<"0", "7", ":", "2", "9", ":", "5", "9">>,
      <<"9", "9", ":", "9", "9", ":", "0", "0">>,
      <<"1", "9", ":", "5", ":", "0", "0">>>>

MalformedPullTimes ==
    <<<<"N", "a", "N", ":", "N", "a", "N", ":", "N", "a", "N">>,
      <<"1", "9">>,
      <<>>,
      <<"1", "9", ":", "x", "x", ":", "0", "0">>,
      <<"a", "b", ":", "3", "0", ":", "0", "0">>,
      <<":", "3", "0", ":", "0", "0">>,
      <<"1", "9", ":", ":", "0", "0">>,
      <<"1", "9", ":", "3", "0", ":", "x", "x">>>>

EntriesOf(pullTimes) ==
    {[id |-> toString(k), name |-> PullPrefix \o toString(k), pullTime |-> pullTimes[k]] :
        k \in 1..Len(pullTimes)}

SeqsUpTo(S, n) == UNION {[1..m -> S] : m \in 0..n}

InitGenerateOn(pullTimes) ==
    /\ videoStartTime \in RefInputs
    /\ entries \in SeqsUpTo(EntriesOf(pullTimes), MaxGenEntries)
    /\ infoDialogOpen = FALSE
    /\ pastedLogs = EmptyString
    /\ youtubeFormatted = EmptyString
    /\ logsUrl = EmptyString
    /\ isLoading = FALSE
    /\ logStartDate \in {null, newDate(MsPerDay + 68400000)}
    /\ toast = NoToast
    /\ now = 0
    /\ lastAction = "none"
    /\ request = NoRequest
    /\ clipboard = EmptyString
    /\ call = [fn |-> "none", arg |-> 0]
    /\ ret = NoReturn

InitGenerate == InitGenerateOn(PullTimeInputs)
NextGenerate == calculateTimestamps
SpecGenerate == InitGenerate /\ [][NextGenerate]_vars

InitGenerateTyped == InitGenerateOn(PullTimeInputs \o MalformedPullTimes)
SpecGenerateTyped == InitGenerateTyped /\ [][NextGenerate]_vars

\* generate and removals in any order, from a list as the imports leave it
NextRegenerate ==
    \/ calculateTimestamps
    \/ \E k \in 1..Len(entries) : removePull(entries[k].id)
SpecRegenerate == InitGenerate /\ [][NextRegenerate]_vars

\* generate, removals and retyping of the reference time in any order
RetypeInputs == SubSeq(PullTimeInputs, 1, 3)
RetypeRefs == RefInputs \cup {<<"1", "9", ":", "3", "0", ":", "x", "x">>, <<"a", "b", ":", "3", "0">>}
InitRetype == InitGenerateOn(RetypeInputs)
NextRetype ==
    \/ calculateTimestamps
    \/ \E k \in 1..Len(entries) : removePull(entries[k].id)
    \/ \E value \in RetypeRefs : setVideoStartTime(value)
SpecRetype == InitRetype /\ [][NextRetype]_vars

----------------------------------------------------------------------------
(* Direct calls of formatTimeForYoutube *)

MaxSeconds == 86399

IdleApp ==
    /\ videoStartTime = EmptyString
    /\ entries = << >>
    /\ infoDialogOpen = FALSE
    /\ pastedLogs = EmptyString
    /\ youtubeFormatted = EmptyString
    /\ logsUrl = EmptyString
    /\ isLoading = FALSE
    /\ logStartDate = null
    /\ toast = NoToast
    /\ now = 0
    /\ lastAction = "none"
    /\ request = NoRequest
    /\ clipboard = EmptyString

InitFormat ==
    /\ IdleApp
    /\ call \in [fn : {"formatTimeForYoutube"}, arg : 0..MaxSeconds]
    /\ ret = NoReturn

CallFormat ==
    /\ call.fn = "formatTimeForYoutube"
    /\ ~ret.done
    /\ ret' = Return(formatTimeForYoutube(call.arg))
    /\ UNCHANGED <<appState, toast, now, lastAction, call, request, clipboard>>

NextFormat == CallFormat
SpecFormat == InitFormat /\ [][NextFormat]_vars

----------------------------------------------------------------------------
(* Direct calls of parseWarcraftlogs on texts of up to MaxLines lines *)

MaxLines == 3

LineInputs ==
    {<<"1", " ", " ", "(", "3", ":", "2", "4", ")">>,
     <<"2", " ", "(", "0", ":", "4", "5", ")">>,
     <<"4", "8", "%">>,
     <<"P", "2">>,
     <<"7", ":", "4", "6", " ", "P", "M">>,
     <<"1", "2", ":", "0", "5", " ", "A", "M">>,
     <<>>,
     <<"I", "1", " ", "7", ":", "5", "0", " ", "P", "M">>,
     <<"3", " ", " ", "(", "1", ":", "0", "0", ")", " ", "8", ":", "1", "5", " ", "P", "M">>,
     <<"5", "%", " ", "9", ":", "0", "0", " ", "P", "M">>}

TextInputs == {join(ls, <<"\n">>) : ls \in SeqsUpTo(LineInputs, MaxLines)}

InitParse ==
    /\ IdleApp
    /\ call \in [fn : {"parseWarcraftlogs"}, arg : TextInputs]
    /\ ret = NoReturn

CallParse ==
    /\ call.fn = "parseWarcraftlogs"
    /\ ~ret.done
    /\ ret' = Return(parseWarcraftlogs(call.arg, steadyClock(call.arg, now)))
    /\ UNCHANGED <<appState, toast, now, lastAction, call, request, clipboard>>

NextParse == CallParse
SpecParse == InitParse /\ [][NextParse]_vars

----------------------------------------------------------------------------
(* Direct calls of parseWarcraftlogs on a pull-number line followed by one  *)
(* time token "<hour>:<minute> <AM|PM>"; call.arg keeps the token's parts. *)

MaxTokenHour == 13

TokenHours ==
    {toString(h) : h \in 0..MaxTokenHour}
        \cup {<<"0", "7">>, <<"0", "1", "2">>, <<"2", "5">>, <<"9", "9">>}
TokenMinutes ==
    {<<"0", "0">>, <<"0", "5">>, <<"4", "6">>, <<"5", "9">>, <<"5">>, <<"9", "9">>}
TokenParts == [hour : TokenHours, minute : TokenMinutes, ampm : {<<"A", "M">>, <<"P", "M">>}]

TokenText(p) ==
    <<"1", " ", " ", "(", "3", ":", "2", "4", ")", "\n">>
        \o p.hour \o <<":">> \o p.minute \o <<" ">> \o p.ampm

InitTimeToken ==
    /\ IdleApp
    /\ call \in [fn : {"timeToken"}, arg : TokenParts]
    /\ ret = NoReturn

CallTimeToken ==
    /\ call.fn = "timeToken"
    /\ ~ret.done
    /\ ret' = Return(parseWarcraftlogs(TokenText(call.arg),
                                       steadyClock(TokenText(call.arg), now)))
    /\ UNCHANGED <<appState, toast, now, lastAction, call, request, clipboard>>

NextTimeToken == CallTimeToken
SpecTimeToken == InitTimeToken /\ [][NextTimeToken]_vars

----------------------------------------------------------------------------
(* fetchLogsFromUrl on typed-in URLs and the replies of the report service. *)
(* call.arg keeps the reply the service gives to the request.               *)

MaxFights == 3

Fight(id, startTime, endTime, bossPercentage, phase, intermission, boss) ==
    [id |-> id, startTime |-> startTime, endTime |-> endTime,
     bossPercentage |-> bossPercentage, lastPhaseForPercentageDisplay |-> phase,
     lastPhaseIsIntermission |-> intermission, boss |-> boss]

\* two boss fights, two non-boss fights and a boss fight without a startTime
ListFights ==
    {Fight(1, 0, 204000, 4800, 2, FALSE, 2032),
     Fight(2, 300000, 330000, absent, absent, FALSE, 0),
     Fight(3, 18300000, 18345000, 0, 1, TRUE, 2032),
     Fight(4, NaN, 400000, absent, absent, FALSE, 0),
     Fight(5, NaN, 500000, 9000, absent, FALSE, 2032)}

BossPercentages == {absent, 0, 1, 99, 100, 4800, 4850, 9999, 10000}
\* one boss fight with every combination of the optional fields
ShapeFights ==
    {Fight(7, t[1], t[2], p, phase, intermission, 2032) :
        t \in {<<0, 0>>, <<0, 204999>>, <<1500, 61499>>, <<100, 3725100>>},
        p \in BossPercentages, phase \in {absent, 0, 2},
        intermission \in BOOLEAN}

\* data.start: 19:00:00.500 of day 1, or no number
ReportStarts == {MsPerDay + 68400500, NaN}

NoData == [error |-> "", start |-> 0, hasFights |-> FALSE, fights |-> << >>]
Reply(data) == [rejected |-> FALSE, ok |-> TRUE, status |-> 200, json |-> TRUE, data |-> data]
FailureReplies ==
    {[rejected |-> TRUE, ok |-> FALSE, status |-> 0, json |-> FALSE, data |-> NoData],
     [rejected |-> FALSE, ok |-> FALSE, status |-> 404, json |-> TRUE, data |-> NoData],
     [rejected |-> FALSE, ok |-> FALSE, status |-> 500, json |-> FALSE, data |-> NoData],
     [rejected |-> FALSE, ok |-> TRUE, status |-> 200, json |-> FALSE, data |-> NoData],
     Reply([NoData EXCEPT !.error = "This report does not exist or is private."]),
     Reply(NoData),
     Reply([NoData EXCEPT !.hasFights = TRUE])}
ReportReplies ==
    {Reply([error |-> "", start |-> start, hasFights |-> TRUE, fights |-> fights]) :
        start \in ReportStarts,
        fights \in (SeqsUpTo(ListFights, MaxFights) \ {<< >>})
                       \cup {<<fight>> : fight \in ShapeFights}}
Replies == FailureReplies \cup ReportReplies

FetchUrls ==
    {<<"h", "t", "t", "p", "s", ":", "/", "/", "w", "w", "w", ".", "w", "a", "r", "c", "r", "a", "f", "t", "l", "o", "g", "s", ".", "c", "o", "m", "/", "r", "e", "p", "o", "r", "t", "s", "/", "a", "B", "3", "x", "#", "f", "i", "g", "h", "t", "=", "1">>,
     <<"r", "e", "p", "o", "r", "t", "s", "/", "Z", "k", "9">>,
     <<"h", "t", "t", "p", "s", ":", "/", "/", "w", "w", "w", ".", "w", "a", "r", "c", "r", "a", "f", "t", "l", "o", "g", "s", ".", "c", "o", "m", "/", "r", "e", "p", "o", "r", "t", "s", "/">>,
     <<"a", "B", "3", "x">>}

\* an entry that an earlier text import left in the list
ImportedEntry ==
    [id |-> <<"0", "1">>, name |-> <<"P", "u", "l", "l", " ", "1", " ", "(", "3", ":", "2", "4", ")">>, pullTime |-> <<"1", "9", ":", "4", "6", ":", "0", "0">>]

InitFetch ==
    /\ videoStartTime = EmptyString
    /\ entries \in {<< >>, <<ImportedEntry>>}
    /\ infoDialogOpen = FALSE
    /\ pastedLogs = EmptyString
    /\ youtubeFormatted = EmptyString
    /\ logsUrl \in FetchUrls
    /\ isLoading = FALSE
    /\ logStartDate = null
    /\ toast = NoToast
    /\ now = 0
    /\ lastAction = "none"
    /\ request = NoRequest
    /\ clipboard = EmptyString
    /\ call \in [fn : {"fetch"}, arg : Replies]
    /\ ret = NoReturn

NextFetch ==
    \/ ~fetchDisabled /\ fetchLogsFromUrl
    \/ fetchSettles(call.arg)
SpecFetch == InitFetch /\ [][NextFetch]_vars

\* The handler called whenever no fetch is awaited, also with the URL field
\* empty (as a successful fetch leaves it), and every awaited fetch() settling
\* in the end: a fetch() promise resolves or rejects.
NextFetchCalls ==
    \/ ~isLoading /\ fetchLogsFromUrl
    \/ fetchSettles(call.arg)
SpecFetchLive ==
    InitFetch /\ [][NextFetchCalls]_vars /\ WF_vars(fetchSettles(call.arg))

----------------------------------------------------------------------------
(* Direct calls of parseWarcraftlogs with the readings of Date.now() at    *)
(* the lines of the text given: call.arg keeps the text and the readings.  *)

MaxIdLines == 3

IdLineInputs ==
    {<<"3", " ", " ", "(", "1", ":", "0", "0", ")", " ", "8", ":", "1", "5", " ", "P", "M">>,
     <<"1", " ", " ", "(", "3", ":", "2", "4", ")">>,
     <<"7", ":", "4", "6", " ", "P", "M">>,
     <<>>}
IdTextInputs == {join(ls, <<"\n">>) : ls \in SeqsUpTo(IdLineInputs, MaxIdLines) \ {<< >>}}
\* eleven lines, the first and the last of which emit an entry
LongText ==
    <<"3", " ", " ", "(", "1", ":", "0", "0", ")", " ", "8", ":", "1", "5", " ", "P", "M", "\n", "\n", "\n", "\n", "\n", "\n", "\n", "\n", "\n", "\n", "4", " ", " ", "(", "2", ":", "0", "0", ")", " ", "8", ":", "3", "0", " ", "P", "M">>

\* readings of one and of two digits; the system clock may also be set back
ClockReadings == {9, 10, 11}
LongTextClocks ==
    {[i \in 0..10 |-> 1], [i \in 0..10 |-> 11],
     [i \in 0..10 |-> IF i = 0 THEN 11 ELSE 1],
     [i \in 0..10 |-> IF i < 5 THEN 9 ELSE 10]}
ClockedTexts ==
    {[text |-> text, clock |-> clock] :
        text \in {LongText}, clock \in LongTextClocks}
    \cup UNION {{[text |-> text, clock |-> clock] :
                    clock \in [0..(Len(split(text, "\n")) - 1) -> ClockReadings]} :
                text \in IdTextInputs}

InitParseIds ==
    /\ IdleApp
    /\ call \in [fn : {"parseWarcraftlogs at"}, arg : ClockedTexts]
    /\ ret = NoReturn

CallParseIds ==
    /\ call.fn = "parseWarcraftlogs at"
    /\ ~ret.done
    /\ ret' = Return(parseWarcraftlogs(call.arg.text, call.arg.clock))
    /\ UNCHANGED <<appState, toast, now, lastAction, call, request, clipboard>>

NextParseIds == CallParseIds
SpecParseIds == InitParseIds /\ [][NextParseIds]_vars

----------------------------------------------------------------------------
(* Direct calls of normalizeTimeInput on typed-in reference times, and     *)
(* calculateTimestamps with the same reference time.                       *)

MaxTypedHour == 24

\* two entries as a text import leaves them
PullEntries ==
    <<[id |-> <<"0", "3">>, name |-> <<"P", "u", "l", "l", " ", "1", ":", " ", "P", "2", " ", "-", " ", "4", "8", "%", " ", "(", "3", ":", "2", "4", ")">>, pullTime |-> <<"1", "9", ":", "4", "6", ":", "0", "0">>],
      [id |-> <<"0", "5">>, name |-> <<"P", "u", "l", "l", " ", "2", " ", "(", "0", ":", "4", "5", ")">>, pullTime |-> <<"0", "0", ":", "0", "5", ":", "0", "0">>]>>

\* "<hour>:<minute>" for the hours 0..MaxTypedHour, with and without a
\* leading zero
TwoPartInputs ==
    {h \o <<":">> \o m :
        h \in {toString(n) : n \in 0..MaxTypedHour} \cup {<<"0", "0">>, <<"0", "7">>},
        m \in {<<"0", "0">>, <<"3", "0">>, <<"5", "9">>, <<"6", "0">>}}
OtherInputs ==
    {<<"7">>,
     <<"1", "9">>,
     <<"a", "b">>,
     <<"7", ":", "3", "0", "p", "m">>,
     <<"1", "9", ":", "3", "0", " ">>,
     <<"2", "3", ":", "1", "0", ":", "0", "5">>,
     <<"9", "9", ":", "9", "9", ":", "9", "9">>,
     <<"1", ":", "2", ":", "3">>,
     <<"1", "9", ":", "3", "0", ":", "0", "0">>,
     <<"2", "4", ":", "0", "0", ":", "0", "0">>,
     <<"a", ":", "b", ":", "c">>,
     <<"1", "9", ":", "3", "0", ":", "6", "0">>}
NormalizeInputs == TwoPartInputs \cup OtherInputs

InitNormalize ==
    /\ videoStartTime \in NormalizeInputs
    /\ entries \in {SubSeq(PullEntries, 1, n) : n \in 1..2}
    /\ infoDialogOpen = FALSE
    /\ pastedLogs = EmptyString
    /\ youtubeFormatted = EmptyString
    /\ logsUrl = EmptyString
    /\ isLoading = FALSE
    /\ logStartDate = null
    /\ toast = NoToast
    /\ now = 0
    /\ lastAction = "none"
    /\ request = NoRequest
    /\ clipboard = EmptyString
    /\ call = [fn |-> "normalizeTimeInput", arg |-> videoStartTime]
    /\ ret = NoReturn

CallNormalize ==
    /\ call.fn = "normalizeTimeInput"
    /\ ~ret.done
    /\ ret' = Return(normalizeTimeInput(call.arg))
    /\ UNCHANGED <<appState, toast, now, lastAction, call, request, clipboard>>

NextNormalize ==
    \/ CallNormalize
    \/ calculateTimestamps
SpecNormalize == InitNormalize /\ [][NextNormalize]_vars

----------------------------------------------------------------------------
(* End to end: one block of pasted text is imported and the timestamps are *)
(* generated.  call.arg keeps the parts the block was written from.        *)

BlockParts ==
    [pullNumber : {<<"1">>, <<"1", "2">>},
     pullDuration : {<<"3", ":", "2", "4">>, <<"0", ":", "4", "5">>},
     health : {EmptyString, <<"4", "8">>, <<"5">>},
     phase : {EmptyString, <<"P", "2">>, <<"I", "1">>},
     time : {[token |-> <<"7", ":", "4", "6", " ", "P", "M">>, hms |-> <<"1", "9", ":", "4", "6", ":", "0", "0">>],
             [token |-> <<"1", "1", ":", "5", "9", " ", "P", "M">>, hms |-> <<"2", "3", ":", "5", "9", ":", "0", "0">>],
             [token |-> <<"1", "2", ":", "0", "5", " ", "A", "M">>, hms |-> <<"0", "0", ":", "0", "5", ":", "0", "0">>]}]

\* "n  (m:ss)" / "h%" / "Pk" / time token, each on a line of its own
BlockText(b) ==
    b.pullNumber \o <<" ", " ", "(">> \o b.pullDuration \o <<")", "\n">>
        \o (IF b.health # EmptyString THEN b.health \o <<"%", "\n">> ELSE << >>)
        \o (IF b.phase # EmptyString THEN b.phase \o <<"\n">> ELSE << >>)
        \o b.time.token \o <<"\n">>

EndToEndRefs ==
    {<<"1", "9", ":", "3", "0">>, <<"1", "9", ":", "3", "0", ":", "0", "0">>, <<"2", "3", ":", "5", "0", ":", "0", "0">>}

InitEndToEnd ==
    /\ call \in [fn : {"endToEnd"}, arg : BlockParts]
    /\ pastedLogs = BlockText(call.arg)
    /\ videoStartTime \in EndToEndRefs
    /\ entries = << >>
    /\ infoDialogOpen = FALSE
    /\ youtubeFormatted = EmptyString
    /\ logsUrl = EmptyString
    /\ isLoading = FALSE
    /\ logStartDate = null
    /\ toast = NoToast
    /\ now = 0
    /\ lastAction = "none"
    /\ request = NoRequest
    /\ clipboard = EmptyString
    /\ ret = NoReturn

NextEndToEnd ==
    \/ ~importDisabled /\ importPulls
    \/ ~generateDisabled /\ calculateTimestamps
SpecEndToEnd == InitEndToEnd /\ [][NextEndToEnd]_vars

----------------------------------------------------------------------------
(* The converter as the user drives it *)

MaxEntries == 2

TypedStartTimes ==
    {<<"1", "9", ":", "3", "0">>}
TypedLogs ==
    {<<"2", " ", "(", "0", ":", "4", "5", ")", "\n", "1", "2", ":", "0", "5", " ", "A", "M">>}

ImportUrls == {<<"h", "t", "t", "p", "s", ":", "/", "/", "w", "w", "w", ".", "w", "a", "r", "c", "r", "a", "f", "t", "l", "o", "g", "s", ".", "c", "o", "m", "/", "r", "e", "p", "o", "r", "t", "s", "/", "a", "B", "3", "x">>}
\* a failing reply, and the report of two boss fights with a non-boss fight
\* between them
ImportReplies ==
    {[rejected |-> FALSE, ok |-> FALSE, status |-> 404, json |-> TRUE, data |-> NoData],
     Reply([error |-> "", start |-> MsPerDay + 68400500, hasFights |-> TRUE,
            fights |-> <<Fight(1, 0, 204000, 4800, 2, FALSE, 2032),
                         Fight(2, 300000, 330000, absent, absent, FALSE, 0),
                         Fight(3, 18300000, 18345000, 0, 1, TRUE, 2032)>>])}

Init ==
    /\ IdleApp
    /\ call = [fn |-> "none", arg |-> 0]
    /\ ret = NoReturn

Next ==
    \/ \E value \in TypedStartTimes : setVideoStartTime(value)
    \/ \E value \in TypedLogs : setPastedLogs(value)
    \/ ~importDisabled /\ Len(entries) < MaxEntries /\ importPulls
    \/ ~generateDisabled /\ calculateTimestamps
    \/ \E k \in 1..Len(entries) : removePull(entries[k].id)
    \/ clearAll
    \/ \E value \in ImportUrls : setLogsUrl(value)
    \/ ~fetchDisabled /\ Len(entries) < MaxEntries /\ fetchLogsFromUrl
    \/ \E response \in ImportReplies : fetchSettles(response)
    \/ copyShown /\ copyToClipboard

Spec == Init /\ [][Next]_vars

----------------------------------------------------------------------------
(* Text imports, remote fetches and removals in any order *)

ImportTexts ==
    {<<"1", " ", " ", "(", "3", ":", "2", "4", ")", "\n", "4", "8", "%", "\n", "P", "2", "\n", "7", ":", "4", "6", " ", "P", "M">>,
     <<"2", " ", "(", "0", ":", "4", "5", ")", " ", "1", "2", ":", "0", "5", " ", "A", "M", "\n", "3", " ", "(", "1", ":", "0", "0", ")", " ", "7", ":", "5", " ", "P", "M">>}
InitImports ==
    /\ IdleApp
    /\ call = [fn |-> "none", arg |-> 0]
    /\ ret = NoReturn

NextImports ==
    \/ \E value \in ImportTexts : setPastedLogs(value)
    \/ ~importDisabled /\ Len(entries) < MaxEntries /\ importPulls
    \/ \E value \in ImportUrls : setLogsUrl(value)
    \/ ~fetchDisabled /\ Len(entries) < MaxEntries /\ fetchLogsFromUrl
    \/ \E response \in ImportReplies : fetchSettles(response)
    \/ \E k \in 1..Len(entries) : removePull(entries[k].id)
SpecImports == InitImports /\ [][NextImports]_vars

\* the same with clearAll: every action that changes the entry list, around
\* the fetches
NextSession ==
    \/ NextImports
    \/ clearAll
SpecSession == InitImports /\ [][NextSession]_vars

----------------------------------------------------------------------------
(* The list edited once the reference time, a text and a URL are typed in: *)
(* a text import that succeeds or fails, a fetch, removals, generate, copy *)
(* and clearAll in any order.  The handlers of Import, Generate and Copy   *)
(* are also called in the states in which their buttons are disabled or    *)
(* not rendered.                                                           *)

\* a block of one pull, a time token without a pull number, and the text that
\* ImportedEntry came from
EditTexts ==
    {<<"1", " ", " ", "(", "3", ":", "2", "4", ")", "\n", "4", "8", "%", "\n", "P", "2", "\n", "7", ":", "4", "6", " ", "P", "M">>,
     <<"7", ":", "4", "6", " ", "P", "M">>,
     <<"\n", "1", " ", " ", "(", "3", ":", "2", "4", ")", " ", "7", ":", "4", "6", " ", "P", "M">>}
\* a failing reply, and the report of a non-boss fight and a boss fight
EditReplies ==
    {[rejected |-> FALSE, ok |-> FALSE, status |-> 404, json |-> TRUE, data |-> NoData],
     Reply([error |-> "", start |-> MsPerDay + 68400500, hasFights |-> TRUE,
            fights |-> <<Fight(2, 300000, 330000, absent, absent, FALSE, 0),
                         Fight(3, 18300000, 18345000, 0, 1, TRUE, 2032)>>])}

InitEdit ==
    /\ videoStartTime \in TypedStartTimes
    /\ entries \in {<< >>, <<ImportedEntry>>}
    /\ infoDialogOpen \in BOOLEAN
    /\ pastedLogs \in EditTexts
    /\ youtubeFormatted = EmptyString
    /\ logsUrl \in ImportUrls
    /\ isLoading = FALSE
    /\ logStartDate = null
    /\ toast = NoToast
    /\ now = 0
    /\ lastAction = "none"
    /\ request = NoRequest
    /\ clipboard = EmptyString
    /\ call = [fn |-> "none", arg |-> 0]
    /\ ret = NoReturn

NextEdit ==
    \/ importPulls
    \/ ~fetchDisabled /\ fetchLogsFromUrl
    \/ \E response \in EditReplies : fetchSettles(response)
    \/ \E k \in 1..Len(entries) : removePull(entries[k].id)
    \/ calculateTimestamps
    \/ copyToClipboard
    \/ clearAll
SpecEdit == InitEdit /\ [][NextEdit]_vars

----------------------------------------------------------------------------
(* Vocabulary of the properties *)

\* a strict zero-padded 24-hour HH:MM:SS time of day
StrictHMS(t) ==
    /\ Len(t) = 8
    /\ \A k \in {1, 2, 4, 5, 7, 8} : IsDigit(t[k])
    /\ t[3] = ":" /\ t[6] = ":"
    /\ 10 * DigitVal(t[1]) + DigitVal(t[2]) <= 23
    /\ 10 * DigitVal(t[4]) + DigitVal(t[5]) <= 59
    /\ 10 * DigitVal(t[7]) + DigitVal(t[8]) <= 59
HourOf(t) == 10 * DigitVal(t[1]) + DigitVal(t[2])
SecondOfDay(t) ==
    HourOf(t) * 3600 + (10 * DigitVal(t[4]) + DigitVal(t[5])) * 60
        + 10 * DigitVal(t[7]) + DigitVal(t[8])

\* the state right after a calculateTimestamps that succeeded
Generated == lastAction = "calculateTimestamps" /\ toast = ToastCalculated
ReferenceTime == normalizeTimeInput(videoStartTime)
OutputLines == split(youtubeFormatted, "\n")
LineOf(seconds, entry) == formatTimeForYoutube(seconds) \o <<" ">> \o entry.name
ErrorLineOf(entry) == <<"E", "r", "r", "o", "r", " ">> \o entry.name

\* M:SS or H:MM:SS, all digits
OffsetText(t) ==
    LET p == split(t, ":")
    IN  /\ Len(p) \in {2, 3}
        /\ \A k \in 1..Len(p) : p[k] # << >> /\ AllDigits(p[k])
        /\ \A k \in 2..Len(p) : Len(p[k]) = 2

\* the offset of a pull at time of day p for the reference time of day r
ExpectedOffset(p, r) ==
    LET d == SecondOfDay(p) - SecondOfDay(r)
    IN  IF d >= 0 THEN d ELSE IF HourOf(p) < HourOf(r) THEN d + 86400 ELSE 0

\* a pullTime whose hour or minute component is not a number, or absent
NonNumeric(c) == \E k \in 1..Len(c) : ~IsDigit(c[k])
MalformedPullTime(t) ==
    LET p == split(t, ":")
    IN  NonNumeric(p[1]) \/ Len(p) < 2 \/ NonNumeric(p[2])

----------------------------------------------------------------------------
(* Properties of calculateTimestamps and formatTimeForYoutube *)

\* C1 (as stated): whenever pull - reference is negative, the offset that is
\* formatted is the difference + 86400, also when the hour components are equal.
C1_UnconditionalWrap ==
    Generated /\ StrictHMS(ReferenceTime) =>
        \A i \in 1..Len(entries) :
            StrictHMS(entries[i].pullTime)
              /\ SecondOfDay(entries[i].pullTime) < SecondOfDay(ReferenceTime)
            => OutputLines[i] =
                 LineOf(SecondOfDay(entries[i].pullTime) - SecondOfDay(ReferenceTime)
                            + 86400, entries[i])

\* C1 (amended): whenever pull - reference is negative, the offset that is
\* formatted is the difference + 86400 if the pull's hour component is below
\* the reference's hour component, and 0 if the hour components are equal.
C1_ConditionalWrap ==
    Generated /\ StrictHMS(ReferenceTime) =>
        \A i \in 1..Len(entries) :
            LET p == entries[i].pullTime
                d == SecondOfDay(p) - SecondOfDay(ReferenceTime)
            IN  StrictHMS(p) /\ d < 0 =>
                  OutputLines[i] =
                      LineOf(IF HourOf(p) = HourOf(ReferenceTime) THEN 0 ELSE d + 86400,
                             entries[i])

C1_Witness ==
    /\ Generated
    /\ ReferenceTime = <<"1", "9", ":", "3", "0", ":", "0", "0">>
    /\ Len(entries) = 2
    /\ entries[1].pullTime = <<"1", "9", ":", "2", "0", ":", "0", "0">>
    /\ entries[2].pullTime = <<"0", "0", ":", "0", "5", ":", "0", "0">>
    /\ youtubeFormatted = <<"0", ":", "0", "0", " ", "P", "u", "l", "l", " ", "2", "\n", "4", ":", "3", "5", ":", "0", "0", " ", "P", "u", "l", "l", " ", "4">>

\* C2: with p >= r (same day) the entry is formatted with exactly p - r seconds.
C2_SameDayOffset ==
    Generated /\ StrictHMS(ReferenceTime) =>
        \A i \in 1..Len(entries) :
            LET p == entries[i].pullTime
            IN  StrictHMS(p) /\ SecondOfDay(p) >= SecondOfDay(ReferenceTime) =>
                  OutputLines[i] =
                      LineOf(SecondOfDay(p) - SecondOfDay(ReferenceTime), entries[i])

C2_Witness ==
    /\ Generated
    /\ videoStartTime = <<"1", "9", ":", "3", "0">>
    /\ Len(entries) = 1
    /\ entries[1].pullTime = <<"1", "9", ":", "4", "6", ":", "0", "0">>
    /\ youtubeFormatted = <<"1", "6", ":", "0", "0", " ", "P", "u", "l", "l", " ", "1">>

\* C3: a pull earlier in the day than the reference and with a smaller hour
\* component is taken as next-day: (p - r) + 86400 seconds, a value in 1..86399.
C3_NextDayWrap ==
    Generated /\ StrictHMS(ReferenceTime) =>
        \A i \in 1..Len(entries) :
            LET p == entries[i].pullTime
                d == SecondOfDay(p) - SecondOfDay(ReferenceTime) + 86400
            IN  StrictHMS(p) /\ SecondOfDay(p) < SecondOfDay(ReferenceTime)
                  /\ HourOf(p) < HourOf(ReferenceTime) =>
                    /\ d \in 1..86399
                    /\ OutputLines[i] = LineOf(d, entries[i])

C3_Witness ==
    /\ Generated
    /\ videoStartTime = <<"2", "3", ":", "5", "0", ":", "0", "0">>
    /\ Len(entries) = 1
    /\ entries[1].pullTime = <<"0", "0", ":", "0", "5", ":", "0", "0">>
    /\ youtubeFormatted = <<"1", "5", ":", "0", "0", " ", "P", "u", "l", "l", " ", "4">>

\* C4: formatTimeForYoutube(s) is H:MM:SS for s >= 3600 and M:SS below, hours
\* (or minutes) unpadded, the rest padded to two digits, and s is recovered
\* from the string.
C4_FormatShape ==
    ret.done /\ call.fn = "formatTimeForYoutube" =>
        LET s == call.arg
            p == split(ret.value, ":")
            Unpadded(t) == AllDigits(t) /\ Len(t) >= 1 /\ (Len(t) > 1 => t[1] # "0")
            Padded(t) == AllDigits(t) /\ Len(t) = 2
        IN  IF s >= 3600
            THEN /\ Len(p) = 3
                 /\ Unpadded(p[1]) /\ Padded(p[2]) /\ Padded(p[3])
                 /\ DigitsValue(p[1]) = s \div 3600
                 /\ DigitsValue(p[2]) = (s % 3600) \div 60
                 /\ DigitsValue(p[3]) = s % 60
                 /\ DigitsValue(p[1]) * 3600 + DigitsValue(p[2]) * 60 + DigitsValue(p[3]) = s
            ELSE /\ Len(p) = 2
                 /\ Unpadded(p[1]) /\ Padded(p[2])
                 /\ DigitsValue(p[1]) = s \div 60
                 /\ DigitsValue(p[2]) = s % 60
                 /\ DigitsValue(p[1]) * 60 + DigitsValue(p[2]) = s

C4_Witness ==
    /\ ret.done /\ call.fn = "formatTimeForYoutube"
    /\ call.arg = 3665
    /\ ret.value = <<"1", ":", "0", "1", ":", "0", "5">>

C6_OneLinePerEntry ==
    Generated =>
        /\ Len(OutputLines) = Len(entries)
        /\ \A i \in 1..Len(entries) :
             LET line == OutputLines[i]
                 p == entries[i].pullTime
             IN  /\ \E n \in 1..Len(line) :
                       /\ OffsetText(SubSeq(line, 1, n))
                            \/ SubSeq(line, 1, n) = <<"E", "r", "r", "o", "r">>
                       /\ SubSeq(line, n + 1, Len(line)) = <<" ">> \o entries[i].name
                 /\ StrictHMS(p) /\ StrictHMS(ReferenceTime) =>
                       line = LineOf(ExpectedOffset(p, ReferenceTime), entries[i])

C6_Witness ==
    /\ Generated
    /\ Len(entries) = 2
    /\ entries[1].pullTime = <<"2", "3", ":", "5", "9", ":", "5", "9">>
    /\ entries[2].pullTime = <<"1", "9", ":", "4", "6", ":", "0", "0">>
    /\ youtubeFormatted = <<"4", ":", "2", "9", ":", "5", "9", " ", "P", "u", "l", "l", " ", "5", "\n", "1", "6", ":", "0", "0", " ", "P", "u", "l", "l", " ", "1">>

----------------------------------------------------------------------------
(* Properties of parseWarcraftlogs *)

Parsed == ret.done /\ call.fn = "parseWarcraftlogs"
Blank(text) == \A k \in 1..Len(text) : IsSpace(text[k])
\* the lines of a text, each trimmed
TrimmedLines(text) == LET ls == split(text, "\n") IN [i \in 1..Len(ls) |-> trim(ls[i])]
\* which of the lines L hold a time token, which are pull-number lines
TimeLines(L) == {i \in 1..Len(L) : timeMatch(L[i]).matched}
PullLines(L) == {i \in 1..Len(L) : pullMatch(L[i]).matched}
\* the lines at which an entry is due: a time token, and a pull-number line
\* on that or an earlier line with no time token in between
EmitLines(L) ==
    LET T == TimeLines(L)
        P == PullLines(L)
    IN  {i \in T : \E j \in P : j <= i /\ \A k \in j..(i - 1) : k \notin T}
\* the n-th smallest member of the set S of line numbers; 0 for n = 0
NthOf(S, n) ==
    IF n = 0 THEN 0 ELSE CHOOSE i \in S : Cardinality({j \in S : j <= i}) = n
\* the token of the last line among lines lo..hi of L that Match accepts, or ""
LastToken(L, lo, hi, Match(_)) ==
    LET S == {l \in lo..hi : Match(L[l]).matched}
    IN  IF S = {} THEN EmptyString
        ELSE Match(L[CHOOSE l \in S : \A m \in S : m <= l]).g1
\* the phase and health parts of a name "Pull <n>[: <phase>][ - <health>%][ (<d>)]"
PhasePart(name) ==
    LET e == DigitRunEnd(name, Len(PullPrefix) + 1)
    IN  IF CharAt(name, e + 1) = ":"
        THEN SubSeq(name, e + 3, DigitRunEnd(name, e + 4)) ELSE EmptyString
HealthPart(name) ==
    LET At(k) == SubSeq(name, k, k + 2) = <<" ", "-", " ">>
    IN  IF \E k \in 1..(Len(name) - 2) : At(k)
        THEN LET k == CHOOSE k \in 1..(Len(name) - 2) : At(k)
             IN  SubSeq(name, k + 3, DigitRunEnd(name, k + 3) + 1)
        ELSE EmptyString

\* C7: the result is either valid with a non-empty entry list and no
\* errorMessage, or invalid with no entries and a non-empty errorMessage; blank
\* text gives the second shape.
C7_TaggedResult ==
    Parsed =>
        LET r == ret.value
        IN  /\ r.valid \in BOOLEAN
            /\ r.valid => Len(r.entries) > 0 /\ r.errorMessage = undefined
            /\ ~r.valid => r.entries = << >> /\ r.errorMessage \notin {undefined, ""}
            /\ Blank(call.arg) => ~r.valid

C7_Witness ==
    /\ Parsed
    /\ call.arg = <<"\n", "\n">>
    /\ ret.value.valid = FALSE
    /\ ret.value.entries = << >>
    /\ ret.value.errorMessage = "No text provided"

\* C8: entries are emitted exactly at the time-token lines at which a pull
\* number is pending, in line order; each entry is what the lines since the
\* previous emission alone produce (the running fields were reset); a text with
\* a pull-number line followed by a time token is valid with at least one entry.
C8_EmitAndReset ==
    Parsed =>
        LET r == ret.value
            lines == split(call.arg, "\n")
            L == TrimmedLines(call.arg)
            S == EmitLines(L)
        IN  /\ Len(r.entries) = Cardinality(S)
            /\ \A n \in 1..Len(r.entries) :
                 LET i == NthOf(S, n)
                     e == NthOf(S, n - 1)
                     alone == parseWarcraftlogs(join(SubSeq(lines, e + 1, i), <<"\n">>),
                                                [k \in 0..i |-> now])
                 IN  /\ r.entries[n].id = toString(now) \o toString(i - 1)
                     /\ r.entries[n].pullTime = convertTime(timeMatch(L[i]))
                     /\ alone.valid /\ Len(alone.entries) = 1
                     /\ r.entries[n].name = alone.entries[1].name
                     /\ HealthPart(r.entries[n].name) # EmptyString =>
                          \E l \in (e + 1)..i : healthMatch(L[l]).matched
                     /\ PhasePart(r.entries[n].name) # EmptyString =>
                          \E l \in (e + 1)..i : phaseMatch(L[l]).matched
            /\ (\E j \in PullLines(L) : \E i \in TimeLines(L) : j <= i)
                  => r.valid /\ Len(r.entries) >= 1

C8_Witness ==
    /\ Parsed
    /\ call.arg = <<"4", "8", "%", "\n", "3", " ", " ", "(", "1", ":", "0", "0", ")", " ", "8", ":", "1", "5", " ", "P", "M", "\n", "3", " ", " ", "(", "1", ":", "0", "0", ")", " ", "8", ":", "1", "5", " ", "P", "M">>
    /\ Len(ret.value.entries) = 2
    /\ ret.value.entries[1].name = <<"P", "u", "l", "l", " ", "3", " ", "-", " ", "4", "8", "%", " ", "(", "1", ":", "0", "0", ")">>
    /\ ret.value.entries[2].name = <<"P", "u", "l", "l", " ", "3", " ", "(", "1", ":", "0", "0", ")">>

\* C10 (as stated): a health or phase token is part of an entry's name only if
\* it stood on a line strictly earlier than the time line that emits the entry.
C10_StrictlyEarlierLine ==
    Parsed =>
        LET L == TrimmedLines(call.arg)
            S == EmitLines(L)
        IN  \A n \in 1..Len(ret.value.entries) :
              n <= Cardinality(S) =>
                LET i == NthOf(S, n)
                    e == NthOf(S, n - 1)
                    name == ret.value.entries[n].name
                IN  /\ PhasePart(name) # EmptyString =>
                         \E l \in (e + 1)..(i - 1) :
                             /\ phaseMatch(L[l]).matched
                             /\ phaseMatch(L[l]).g1 = PhasePart(name)
                    /\ HealthPart(name) # EmptyString =>
                         \E l \in (e + 1)..(i - 1) :
                             /\ healthMatch(L[l]).matched
                             /\ healthMatch(L[l]).g1 \o <<"%">> = HealthPart(name)

\* C10 (amended): the phase (health) part of an entry's name is the token of
\* the last phase (health) line among the lines after the previous emission up
\* to and including the emitting time line; a token on the time line itself is
\* captured, a token on a later line is not.
C10_SameOrEarlierLine ==
    Parsed =>
        LET L == TrimmedLines(call.arg)
            S == EmitLines(L)
        IN  /\ Len(ret.value.entries) = Cardinality(S)
            /\ \A n \in 1..Len(ret.value.entries) :
                n <= Cardinality(S) =>
                LET i == NthOf(S, n)
                    e == NthOf(S, n - 1)
                    name == ret.value.entries[n].name
                    health == LastToken(L, e + 1, i, healthMatch)
                IN  /\ PhasePart(name) = LastToken(L, e + 1, i, phaseMatch)
                    /\ HealthPart(name) =
                         IF health = EmptyString THEN EmptyString ELSE health \o <<"%">>

C10_Witness ==
    /\ Parsed
    /\ call.arg = <<"P", "2", "\n", "1", " ", " ", "(", "3", ":", "2", "4", ")", "\n", "I", "1", " ", "7", ":", "5", "0", " ", "P", "M">>
    /\ Len(ret.value.entries) = 1
    /\ ret.value.entries[1].name = <<"P", "u", "l", "l", " ", "1", ":", " ", "I", "1", " ", "(", "3", ":", "2", "4", ")">>

----------------------------------------------------------------------------
(* End to end *)

\* C9: a block "n  (m:ss)" / "h%" / "Pk" / time, imported and generated with a
\* reference time, gives the one line "<offset> Pull n: Pk - h% (m:ss)", the
\* phase and health parts present exactly when the block has them.
C9_EndToEnd ==
    Generated /\ call.fn = "endToEnd" =>
        LET b == call.arg
            offset == ExpectedOffset(b.time.hms, ReferenceTime)
        IN  youtubeFormatted =
                formatTimeForYoutube(offset) \o <<" ", "P", "u", "l", "l", " ">> \o b.pullNumber
                    \o (IF b.phase # EmptyString THEN <<":", " ">> \o b.phase ELSE << >>)
                    \o (IF b.health # EmptyString
                        THEN <<" ", "-", " ">> \o b.health \o <<"%">> ELSE << >>)
                    \o <<" ", "(">> \o b.pullDuration \o <<")">>

C9_Witness ==
    /\ Generated /\ call.fn = "endToEnd"
    /\ BlockText(call.arg) = <<"1", " ", " ", "(", "3", ":", "2", "4", ")", "\n", "4", "8", "%", "\n", "P", "2", "\n", "7", ":", "4", "6", " ", "P", "M", "\n">>
    /\ videoStartTime = <<"1", "9", ":", "3", "0">>
    /\ youtubeFormatted = <<"1", "6", ":", "0", "0", " ", "P", "u", "l", "l", " ", "1", ":", " ", "P", "2", " ", "-", " ", "4", "8", "%", " ", "(", "3", ":", "2", "4", ")">>


----------------------------------------------------------------------------
(* Properties of the time-token conversion *)

\* C11: a time token "h:mm AM|PM" with h in 1..12 is stored with the hour of
\* the standard 12-hour rules (PM: h + 12 for h < 12 and 12 for h = 12; AM: 0
\* for h = 12 and h otherwise), zero-padded to two digits, the minute text
\* copied and the seconds 00.
C11_TwelveHourRules ==
    ret.done /\ call.fn = "timeToken" =>
        LET p == call.arg
            h == DigitsValue(p.hour)
            stored == IF p.ampm = <<"P", "M">>
                      THEN (IF h < 12 THEN h + 12 ELSE 12)
                      ELSE (IF h = 12 THEN 0 ELSE h)
        IN  h \in 1..12 =>
              /\ ret.value.valid
              /\ Len(ret.value.entries) = 1
              /\ ret.value.entries[1].pullTime =
                     <<Digits[(stored \div 10) + 1], Digits[(stored % 10) + 1], ":">>
                         \o p.minute \o <<":", "0", "0">>

C11_Witness ==
    /\ ret.done /\ call.fn = "timeToken"
    /\ call.arg.hour = <<"1", "2">>
    /\ call.arg.minute = <<"0", "5">>
    /\ call.arg.ampm = <<"A", "M">>
    /\ ret.value.entries[1].pullTime = <<"0", "0", ":", "0", "5", ":", "0", "0">>

----------------------------------------------------------------------------
(* Properties of the entry ids *)

\* the (0-based) indexes of the lines of a text at which an entry is emitted,
\* in increasing order
EmitIndexes(text) ==
    LET S == EmitLines(TrimmedLines(text))
    IN  [n \in 1..Cardinality(S) |-> NthOf(S, n) - 1]

\* C13: within one parseWarcraftlogs call every line emits at most one entry,
\* the id of an entry is the decimal clock reading at its line followed by the
\* decimal line index, and when the readings of the call have equal digit
\* length the ids are pairwise distinct, also when the clock moves during the
\* call.
C13_DistinctIds ==
    ret.done /\ call.fn = "parseWarcraftlogs at" =>
        LET es == ret.value.entries
            clock == call.arg.clock
            at == EmitIndexes(call.arg.text)
        IN  /\ Len(es) = Len(at)
            /\ \A n \in 1..Len(es) :
                 es[n].id = NatToString(clock[at[n]]) \o NatToString(at[n])
            /\ (\A i, j \in DOMAIN clock :
                    Len(NatToString(clock[i])) = Len(NatToString(clock[j])))
                 => \A m, n \in 1..Len(es) : m # n => es[m].id # es[n].id

C13_Witness ==
    /\ ret.done /\ call.fn = "parseWarcraftlogs at"
    /\ call.arg.clock = [i \in 0..2 |-> IF i = 0 THEN 10 ELSE 11]
    /\ Len(ret.value.entries) = 3
    /\ ret.value.entries[1].id = <<"1", "0", "0">>
    /\ ret.value.entries[2].id = <<"1", "1", "1">>
    /\ ret.value.entries[3].id = <<"1", "1", "2">>

----------------------------------------------------------------------------
(* Properties of the entry list under imports, fetches and removals *)

\* C12: after any sequence of text imports and remote fetches, the pullTime of
\* every entry of the list is a zero-padded 24-hour HH:MM:SS string with hour
\* 00..23, minute 00..59 and second 00..59.
C12_ValidPullTimes ==
    \A i \in 1..Len(entries) : StrictHMS(entries[i].pullTime)

\* C14: after any sequence of text imports and remote fetches, a removePull of
\* an id of the list removes exactly one entry and leaves the others in their
\* order.
C14_RemovesExactlyOne ==
    [][lastAction' = "removePull" =>
          \E k \in 1..Len(entries) :
              entries' = SubSeq(entries, 1, k - 1) \o SubSeq(entries, k + 1, Len(entries))]_vars

\* C15: after generate is run again following a deletion, with a valid
\* reference time, youtubeFormatted holds no line of an entry that is no longer
\* in the list, also when the deletion removed the last entry.
C15_NoResidualLines ==
    lastAction = "calculateTimestamps" /\ StrictHMS(ReferenceTime) =>
        \A l \in 1..Len(OutputLines) :
            OutputLines[l] # EmptyString =>
                \E i \in 1..Len(entries) :
                    \E n \in 1..Len(OutputLines[l]) :
                        SubSeq(OutputLines[l], n, Len(OutputLines[l]))
                            = <<" ">> \o entries[i].name

----------------------------------------------------------------------------
(* Properties of normalizeTimeInput *)

Normalized == ret.done /\ call.fn = "normalizeTimeInput"
\* a strict two-digit 24-hour HH:MM string
StrictHM(t) ==
    /\ Len(t) = 5
    /\ \A k \in {1, 2, 4, 5} : IsDigit(t[k])
    /\ t[3] = ":"
    /\ 10 * DigitVal(t[1]) + DigitVal(t[2]) <= 23
    /\ 10 * DigitVal(t[4]) + DigitVal(t[5]) <= 59
\* "H:MM": an all-digit hour and a two-digit minute, with the hour's value
HourMinute(t) ==
    LET p == split(t, ":")
    IN  /\ Len(p) = 2
        /\ p[1] # EmptyString /\ AllDigits(p[1])
        /\ Len(p[2]) = 2 /\ AllDigits(p[2])

\* C16: a strict 24-hour "HH:MM" normalizes to "HH:MM:00"; any other "H:MM"
\* whose literal hour is below 12 (such as "7:30") normalizes to
\* "(H+12):MM:00" (the evening shorthand).
C16_EveningShorthand ==
    Normalized /\ HourMinute(call.arg) =>
        LET p == split(call.arg, ":")
            hour == DigitsValue(p[1])
        IN  /\ StrictHM(call.arg) => ret.value = call.arg \o <<":", "0", "0">>
            /\ ~StrictHM(call.arg) /\ hour < 12 =>
                 ret.value = NatToString(hour + 12) \o <<":">> \o p[2] \o <<":", "0", "0">>

\* C17: a 3-component input is returned unchanged only if it is a strict
\* HH:MM:SS time; with any other 3-component reference time generate writes no
\* output and raises the error notice.
C17_ThreePartValidated ==
    Len(split(call.arg, ":")) = 3 /\ ~StrictHMS(call.arg) =>
        /\ Normalized => ret.value # call.arg
        /\ lastAction = "calculateTimestamps" =>
             toast = ToastCalcError /\ youtubeFormatted = EmptyString

----------------------------------------------------------------------------
(* Properties of fetchLogsFromUrl *)

\* the step in which a fetch ends with the notice "Logs imported"
FetchSucceeds == lastAction' = "fetchSettles" /\ toast'.title = "Logs imported"
\* the positions of the boss fights in the fight list of the reply
BossPositions == {n \in 1..Len(call.arg.data.fights) : call.arg.data.fights[n].boss # 0}

\* C18: a successful fetch appends one entry per fight with boss # 0, none for
\* a fight with boss = 0, in report order; the k-th appended entry belongs to
\* the k-th boss fight and its name starts with "Pull k", k = 1..m without gaps.
C18_OnePullPerBossFight ==
    [][FetchSucceeds =>
          LET fights == call.arg.data.fights
              m == Cardinality(BossPositions)
          IN  /\ Len(entries') = Len(entries) + m
              /\ SubSeq(entries', 1, Len(entries)) = entries
              /\ \A k \in 1..m :
                   LET e == entries'[Len(entries) + k]
                       fight == fights[NthOf(BossPositions, k)]
                       head == <<"P", "u", "l", "l", " ">> \o NatToString(k)
                   IN  /\ Len(e.name) > Len(head)
                       /\ SubSeq(e.name, 1, Len(head)) = head
                       /\ e.name[Len(head) + 1] \in {":", " "}
                       /\ e.id = <<"a", "p", "i", "-">> \o NatToString(fight.id)
                                     \o <<"-">> \o NatToString(k - 1)]_vars

C18_Witness ==
    /\ lastAction = "fetchSettles"
    /\ Len(call.arg.data.fights) = 3
    /\ call.arg.data.fights[1].boss = 0
    /\ call.arg.data.fights[2].boss # 0
    /\ call.arg.data.fights[3].boss # 0
    /\ Len(entries) = 3
    /\ entries[1] = ImportedEntry
    /\ entries[2].name = <<"P", "u", "l", "l", " ", "1", ":", " ", "P", "2", " ", "-", " ", "5", "2", "%", " ", "(", "3", ":", "2", "4", ")">>
    /\ entries[3].name = <<"P", "u", "l", "l", " ", "2", ":", " ", "I", "1", " ", "(", "0", ":", "4", "5", ")">>

\* the state right after a fetch that ended with the notice "Logs imported"
Fetched == lastAction = "fetchSettles" /\ toast.title = "Logs imported"
Contains(s, part) ==
    \E k \in 1..(Len(s) - Len(part) + 1) : SubSeq(s, k, k + Len(part) - 1) = part
EndsWith(s, part) ==
    Len(s) >= Len(part) /\ SubSeq(s, Len(s) - Len(part) + 1, Len(s)) = part
\* " - <floor(100 - p/100)>%"
HealthOf(p) == <<" ", "-", " ">> \o NatToString(100 - ((p + 99) \div 100)) \o <<"%">>
\* " (M:SS)" of the whole seconds between startTime and endTime
DurationOf(fight) ==
    LET seconds == (fight.endTime - fight.startTime) \div 1000
    IN  <<" ", "(">> \o NatToString(seconds \div 60) \o <<":">>
            \o <<Digits[((seconds % 60) \div 10) + 1], Digits[(seconds % 10) + 1]>>
            \o <<")">>

\* C19: the name of the entry of every boss fight that carries a bossPercentage
\* p in 0..10000, p = 0 included, contains " - <floor(100 - p/100)>%", and
\* the name of every entry ends with the duration " (M:SS)".
C19_HealthAndDuration ==
    Fetched =>
        LET fights == call.arg.data.fights
            m == Cardinality(BossPositions)
        IN  \A k \in 1..m :
              LET name == entries[Len(entries) - m + k].name
                  fight == fights[NthOf(BossPositions, k)]
              IN  /\ fight.bossPercentage \in 0..10000 =>
                        Contains(name, HealthOf(fight.bossPercentage))
                  /\ EndsWith(name, DurationOf(fight))

\* a URL without a report id after "reports/"
NoReportId(url) ==
    ~ \E k \in 1..(Len(url) - 8) :
          /\ SubSeq(url, k, k + 7) = <<"r", "e", "p", "o", "r", "t", "s", "/">>
          /\ url[k + 8] \in Letters \cup {Digits[d] : d \in 1..10}
\* a rejected request, a non-success response, a report-level error field, a
\* missing or empty fight list
FailingReply(r) ==
    \/ r.rejected
    \/ ~r.ok
    \/ r.json /\ r.data.error # ""
    \/ r.json /\ (~r.data.hasFights \/ r.data.fights = << >>)
\* the step in which a fetch fails in one of these ways
FetchFails ==
    \/ lastAction' = "fetchLogsFromUrl" /\ logsUrl # EmptyString /\ NoReportId(logsUrl)
    \/ lastAction' = "fetchSettles" /\ FailingReply(call.arg)

\* C20: a fetch that fails by a URL without report id, a rejected request, a
\* non-success response, a report-level error field or a missing or empty
\* fight list leaves entries, logStartDate, youtubeFormatted and logsUrl
\* unchanged, raises the error notice, and leaves no request behind.
C20_FailureLeavesState ==
    [][FetchFails =>
          /\ UNCHANGED <<entries, logStartDate, youtubeFormatted, logsUrl>>
          /\ toast'.title = "Import failed"
          /\ toast'.variant = "destructive"
          /\ toast'.description # ""
          /\ request' = NoRequest
          /\ ~isLoading']_vars

C20_Witness ==
    /\ lastAction = "fetchSettles"
    /\ call.arg.data.hasFights /\ call.arg.data.fights = << >>
    /\ toast = ToastFetchFailed("No fights found in the log")
    /\ entries = <<ImportedEntry>>
    /\ logStartDate = null
    /\ logsUrl = <<"r", "e", "p", "o", "r", "t", "s", "/", "Z", "k", "9">>
    /\ request = NoRequest

----------------------------------------------------------------------------
(* Properties of the fetches in flight *)

\* C21: at most one fetch is awaited at any time: the Fetch button starts one
\* only when isLoading is false and logsUrl is not blank, isLoading is true
\* from the step that issues the request on, and it stays true through every
\* other action until that request has settled.
C21_OneFetchOutstanding ==
    [][/\ lastAction' = "fetchLogsFromUrl" => ~isLoading /\ trim(logsUrl) # EmptyString
       /\ Len(request') > Len(request) => isLoading'
       /\ Len(request') <= 1
       /\ request' # NoRequest => isLoading']_vars

C21_Witness ==
    /\ lastAction = "clearAll"
    /\ Len(request) = 1
    /\ isLoading
    /\ fetchDisabled

\* C22: when a fetch completes successfully, the entry list is the list as it
\* stood immediately before the completion followed by the fetched entries, so
\* that removals, text imports and a clearAll made while the fetch was awaited
\* are kept.
C22_UserActionsKept ==
    [][FetchSucceeds =>
          \E response \in ImportReplies :
              entries' = entries \o apiEntries(response.data)]_vars

\* C23: whenever isLoading is true it is false again later, given that the
\* awaited request settles: the step in which the request resolves or rejects
\* resets it on the success path and on every failure path, a URL without
\* report id never leaves it true, and the early return on an empty logsUrl
\* does not set it.
C23_LoadingEnds ==
    /\ isLoading ~> ~isLoading
    /\ [][/\ lastAction' = "fetchSettles" => ~isLoading'
          /\ lastAction' = "fetchLogsFromUrl" /\ ~urlMatch(logsUrl).matched => ~isLoading'
          /\ lastAction' = "fetchLogsFromUrl" /\ logsUrl = EmptyString =>
                UNCHANGED <<isLoading, request>>]_vars

C23_Witness ==
    /\ lastAction = "fetchSettles"
    /\ call.arg.status = 500
    /\ toast.title = "Import failed"
    /\ ~isLoading
    /\ request = NoRequest

\* C24: a fetch that ends with the notice "Logs imported" has appended at least
\* one entry; a report whose fights are all non-boss fights ends with the
\* failure notice, as an empty fight list does.
C24_SuccessAddsEntries ==
    [][lastAction' = "fetchSettles" =>
          /\ toast'.title = "Logs imported" => Len(entries') > Len(entries)
          /\ BossPositions = {} => toast'.title = "Import failed"]_vars

----------------------------------------------------------------------------
(* Properties of the emissions of parseWarcraftlogs *)

\* the last pull-number line among lines lo..hi of L
LastPullLine(L, lo, hi) ==
    LET S == {l \in lo..hi : pullMatch(L[l]).matched}
    IN  CHOOSE l \in S : \A m \in S : m <= l

\* C25: parseWarcraftlogs emits one entry per time-token line at which a pull
\* number is pending, in the order of those lines; a time token met while no
\* pull number is pending emits nothing, also when a pull-number line follows;
\* the number and the duration of an entry are those of the last pull-number
\* line before its time token, an earlier pull-number line without a time
\* token of its own yields no entry.
C25_EmissionCount ==
    Parsed =>
        LET es == ret.value.entries
            L == TrimmedLines(call.arg)
            S == EmitLines(L)
        IN  /\ Len(es) = Cardinality(S)
            /\ \A i \in TimeLines(L) \ S :
                   \A n \in 1..Len(es) : es[n].id # toString(now) \o toString(i - 1)
            /\ \A n \in 1..Len(es) :
                   LET i == NthOf(S, n)
                       pl == pullMatch(L[LastPullLine(L, NthOf(S, n - 1) + 1, i)])
                       head == PullPrefix \o pl.g1
                   IN  /\ es[n].id = toString(now) \o toString(i - 1)
                       /\ es[n].pullTime = convertTime(timeMatch(L[i]))
                       /\ SubSeq(es[n].name, 1, Len(head)) = head
                       /\ es[n].name[Len(head) + 1] \in {":", " "}
                       /\ EndsWith(es[n].name, <<" ", "(">> \o pl.g2 \o <<":">> \o pl.g3 \o <<")">>)

C25_Witness ==
    /\ Parsed
    /\ call.arg = <<"1", " ", " ", "(", "3", ":", "2", "4", ")", "\n", "2", " ", "(", "0", ":", "4", "5", ")", "\n", "7", ":", "4", "6", " ", "P", "M">>
    /\ Len(ret.value.entries) = 1
    /\ ret.value.entries[1].name = <<"P", "u", "l", "l", " ", "2", " ", "(", "0", ":", "4", "5", ")">>
    /\ ret.value.entries[1].id = <<"0", "2">>

----------------------------------------------------------------------------
(* Properties of the handlers' effects on the rest of the state *)

\* C26: a calculateTimestamps that does not succeed leaves youtubeFormatted as
\* it was and raises an error notice only; it does not succeed when
\* videoStartTime is empty, when the entry list is empty, and when a component
\* of the normalized reference time is not a number.
C26_FailureKeepsOutput ==
    [][lastAction' = "calculateTimestamps" =>
          LET p == split(ReferenceTime, ":")
              missing == videoStartTime = EmptyString \/ entries = << >>
              nonNumeric == \E k \in 1..Len(p) : Number(p[k]) = NaN
          IN  /\ toast' # ToastCalculated =>
                    UNCHANGED youtubeFormatted /\ toast'.variant = "destructive"
              /\ missing => toast' = ToastMissing /\ UNCHANGED youtubeFormatted
              /\ ~missing /\ nonNumeric =>
                    toast' = ToastCalcError /\ UNCHANGED youtubeFormatted]_vars

\* C27: importPulls on a text that does not parse leaves the entry list and
\* pastedLogs as they were and raises "Import failed"; on a text that parses
\* the new list is the previous list, every entry in its place, followed by
\* the parsed entries in parse order, and pastedLogs is emptied; in both
\* cases videoStartTime and youtubeFormatted are unchanged.
C27_ImportAppends ==
    [][lastAction' = "importPulls" =>
          LET result == parseWarcraftlogs(pastedLogs, steadyClock(pastedLogs, now))
              parsed == result.entries
          IN  /\ UNCHANGED <<videoStartTime, youtubeFormatted>>
              /\ IF ~result.valid
                 THEN /\ UNCHANGED <<entries, pastedLogs>>
                      /\ toast'.title = "Import failed"
                 ELSE /\ Len(entries') = Len(entries) + Len(parsed)
                      /\ SubSeq(entries', 1, Len(entries)) = entries
                      /\ \A n \in 1..Len(parsed) :
                             /\ entries'[Len(entries) + n].name = parsed[n].name
                             /\ entries'[Len(entries) + n].pullTime = parsed[n].pullTime
                      /\ pastedLogs' = EmptyString
                      /\ toast'.title = "Pulls imported"]_vars

C27_Witness ==
    /\ lastAction = "importPulls"
    /\ toast.title = "Pulls imported"
    /\ youtubeFormatted = <<"1", "6", ":", "0", "0", " ", "P", "u", "l", "l", " ", "1", " ", "(", "3", ":", "2", "4", ")">>
    /\ Len(entries) = 2
    /\ entries[1] = ImportedEntry
    /\ entries[2].name = <<"P", "u", "l", "l", " ", "1", ":", " ", "P", "2", " ", "-", " ", "4", "8", "%", " ", "(", "3", ":", "2", "4", ")">>
    /\ pastedLogs = EmptyString

\* the output stays as the last successful generate wrote it, one line per
\* entry of the list of that moment, through every step but a successful
\* generate and clearAll, and copyToClipboard hands that text to the clipboard
OutputKept ==
    /\ Generated' => Len(OutputLines') = Len(entries')
    /\ ~Generated' /\ lastAction' # "clearAll" => UNCHANGED youtubeFormatted
    /\ lastAction' = "copyToClipboard" /\ youtubeFormatted # EmptyString =>
          clipboard' = youtubeFormatted /\ toast' = ToastCopied

\* C28 (as stated): removePull, importPulls and a successful fetch change the
\* entry list and their own input field only (besides the notice and the
\* loading flag), so that the output stays that of the last successful
\* generate and copyToClipboard writes it.
C28_OnlyListChanges ==
    [][/\ lastAction' = "removePull" =>
             UNCHANGED <<videoStartTime, youtubeFormatted, pastedLogs, logsUrl,
                         logStartDate, infoDialogOpen, clipboard>>
       /\ lastAction' = "importPulls" =>
             UNCHANGED <<videoStartTime, youtubeFormatted, logsUrl,
                         logStartDate, infoDialogOpen, clipboard>>
       /\ FetchSucceeds =>
             UNCHANGED <<videoStartTime, youtubeFormatted, pastedLogs,
                         logStartDate, infoDialogOpen, clipboard>>
       /\ OutputKept]_vars

\* C28 (amended): removePull changes the entry list only, importPulls the
\* entry list and pastedLogs, and a successful fetch the entry list, logsUrl
\* and logStartDate, which becomes the start of the report (besides the
\* notice and the loading flag); youtubeFormatted is left unchanged, so that
\* the output stays that of the last successful generate and copyToClipboard
\* writes it.
C28_ListAndStartDateChange ==
    [][/\ lastAction' = "removePull" =>
             UNCHANGED <<videoStartTime, youtubeFormatted, pastedLogs, logsUrl,
                         logStartDate, infoDialogOpen, clipboard>>
       /\ lastAction' = "importPulls" =>
             UNCHANGED <<videoStartTime, youtubeFormatted, logsUrl,
                         logStartDate, infoDialogOpen, clipboard>>
       /\ FetchSucceeds =>
             /\ UNCHANGED <<videoStartTime, youtubeFormatted, pastedLogs,
                            infoDialogOpen, clipboard>>
             /\ logsUrl' = EmptyString
             /\ \E response \in EditReplies :
                    /\ response.data.hasFights
                    /\ logStartDate' = newDate(response.data.start)
       /\ OutputKept]_vars

C28_Witness ==
    /\ lastAction = "copyToClipboard"
    /\ youtubeFormatted = <<"1", "6", ":", "0", "0", " ", "P", "u", "l", "l", " ", "1", " ", "(", "3", ":", "2", "4", ")">>
    /\ clipboard = youtubeFormatted
    /\ Len(entries) = 3
    /\ logStartDate = newDate(MsPerDay + 68400500)
    /\ logsUrl = EmptyString
    /\ pastedLogs = EmptyString

----------------------------------------------------------------------------
(* Properties of the seconds handed to formatTimeForYoutube *)

\* C29: for a valid reference time and an entry with a valid time of day as
\* pullTime, the seconds that calculateTimestamps hands to
\* formatTimeForYoutube are an integer in 0..86399: never negative, never a
\* full day.
C29_OffsetInDay ==
    Generated /\ StrictHMS(ReferenceTime) =>
        \A i \in 1..Len(entries) :
            LET seconds == entryOffset(entries[i].pullTime, ReferenceTime,
                                       baseDate(logStartDate))
            IN  StrictHMS(entries[i].pullTime) =>
                  /\ seconds \in 0..86399
                  /\ OutputLines[i] = LineOf(seconds, entries[i])

\* a wrapped difference and a clamped one in one run
C29_Witness ==
    /\ Generated
    /\ ReferenceTime = <<"1", "9", ":", "3", "0", ":", "0", "0">>
    /\ logStartDate # null
    /\ Len(entries) = 2
    /\ entries[1].pullTime = <<"0", "0", ":", "0", "5", ":", "0", "0">>
    /\ entries[2].pullTime = <<"1", "9", ":", "2", "0", ":", "0", "0">>
    /\ entryOffset(entries[1].pullTime, ReferenceTime, baseDate(logStartDate)) = 16500
    /\ entryOffset(entries[2].pullTime, ReferenceTime, baseDate(logStartDate)) = 0
    /\ OutputLines[1] = LineOf(16500, entries[1])
    /\ OutputLines[2] = LineOf(0, entries[2])

----------------------------------------------------------------------------
(* Properties of clearAll *)

\* C30: clearAll empties the entry list, videoStartTime, pastedLogs,
\* youtubeFormatted and logsUrl, sets logStartDate to null and leaves
\* isLoading and the dialog flag as they are; a generate or a copy in the
\* state right after it is rejected with a notice and changes nothing.
C30_ClearAllResets ==
    [][/\ lastAction' = "clearAll" =>
             /\ entries' = << >>
             /\ videoStartTime' = EmptyString
             /\ pastedLogs' = EmptyString
             /\ youtubeFormatted' = EmptyString
             /\ logsUrl' = EmptyString
             /\ logStartDate' = null
             /\ UNCHANGED <<isLoading, infoDialogOpen>>
       /\ lastAction = "clearAll" /\ lastAction' = "calculateTimestamps" =>
             /\ toast' = ToastMissing
             /\ UNCHANGED <<appState, clipboard>>
       /\ lastAction = "clearAll" /\ lastAction' = "copyToClipboard" =>
             /\ toast' = ToastGenerateFirst
             /\ UNCHANGED <<appState, clipboard>>]_vars

\* clearAll has run while a fetch was awaited, the dialog was open and an
\* output had been generated and copied
C30_Witness ==
    /\ lastAction = "clearAll"
    /\ entries = << >>
    /\ videoStartTime = EmptyString
    /\ pastedLogs = EmptyString
    /\ youtubeFormatted = EmptyString
    /\ logsUrl = EmptyString
    /\ logStartDate = null
    /\ isLoading
    /\ infoDialogOpen
    /\ request # NoRequest
    /\ clipboard # EmptyString

====
